---- MODULE Spec2Model ----
(***************************************************************************)
(* Model of the PowerAutomation MCP test tooling.                          *)
(*                                                                         *)
(* Part 1: MCPTestExecutor (framework/test_executor.py): discovery, the    *)
(* Runner execute_single_test, the sequential and the thread-pool          *)
(* schedulers, report generation, report saving and main's exit code.      *)
(* Part 2: the three success_rate computations of the repository.          *)
(*                                                                         *)
(* Numbers that are floats in the code and whose exact value matters       *)
(* (success rates) are kept as exact fractions [num, den].                 *)
(***************************************************************************)
EXTENDS Integers, Sequences, FiniteSets, TLC

\* ------------------------------------------------------------------ bounds

\* At most this many of the test files of FileUniverse exist in one run.
MaxTests == 2
\* --workers ranges over 0..MaxWorkers.
MaxWorkers == 2

\* ------------------------------------------------------- program constants

\* subprocess.run(..., timeout=300) and 'duration': 300 of the TIMEOUT record.
TIMEOUT_SECONDS == 300

None == [kind |-> "none"]

\* --------------------------------------------------------------- variables

VARIABLES
    fs,            \* indices of FileUniverse whose test file exists on disk
    parallel,      \* run_all_tests(parallel=...)
    max_workers,   \* run_all_tests(max_workers=...)
    pc,            \* position of the coordinating thread inside run_all_tests
    test_modules,  \* local test_modules of run_all_tests
    task,          \* per descriptor index: "new" | "queued" | "running" | "finished"
    outcome,       \* per index: what the subprocess (or the pool) did, None before
    call,          \* per index: how the execute_single_test call / its Future ended
    collected,     \* indices in the order the coordinator took their results
    results,       \* local results of execute_tests_parallel / _sequential
    report,        \* comprehensive_report, None before generation
    saved_report,  \* the content of the report file, None while no file is written
    returned,      \* run_all_tests: "pending" | "true" | "false" | "raised"
    exit_code,     \* process exit code of main, -1 while running
    fcall,         \* Part 2: one call of a pure computation: arguments, result
    metrics_history,   \* Part 3: PredictivePerformanceAnalyzer.metrics_history
    analysis_history,  \* PredictivePerformanceAnalyzer.analysis_history
    now,           \* datetime.now(), in hours since the analyzer was built
    created,       \* number of PerformanceMetric objects created so far
    feed,          \* the test runs that report to the analyzer: plan, next call
    ret,           \* the last call of an analyzer method and how it ended
    wall,          \* Part 4: datetime.now() of the manager's host, in seconds
    test_dir,      \* the report files in <project_root>/test: name -> content
    reports_path,  \* the files in TestManageMCP.reports_path: name -> content
    invocations,   \* number of run_all_tests invocations so far (orders st_mtime)
    saved,         \* the save_report calls so far: file name, report
    mcall,         \* the last call of a manager or CLI operation
    subscribers,   \* MessageBus._subscribers: event type -> callbacks in order
    message_handlers, \* MessageBus._message_handlers: component -> handler
    event_history, \* MessageBus._event_history
    published,     \* number of Event objects created so far
    bcall,         \* the last call of a MessageBus method and what it did
    active_strategies, \* TestManagerMCP.active_strategies: id -> strategy
    strategies_path,   \* the strategy files: id -> content
    creators,      \* the create_test_strategy coroutines: position, result
    active_workflows,  \* TestManagerMCP.active_workflows: id -> record
    workflows_path, \* the files of TestManagerMCP.workflows_path: id -> record
    workflow,      \* the execute_test_workflow coroutine: position, steps
    active_executions, \* TestExecutionEngine.active_executions: id -> record
    engine_task    \* the execute_tests coroutine and the stop_execution calls

analyzerVars == <<metrics_history, analysis_history, now, created, feed, ret>>
manageVars == <<wall, test_dir, reports_path, invocations, saved, mcall>>
busVars == <<subscribers, message_handlers, event_history, published, bcall>>
strategyVars == <<active_strategies, strategies_path, creators>>
workflowVars == <<active_workflows, workflows_path, workflow>>
engineVars == <<active_executions, engine_task>>
serviceVars == <<manageVars, busVars, strategyVars, workflowVars, engineVars>>
execVars == <<fs, parallel, max_workers, pc, test_modules, task, outcome, call,
              collected, results, report, saved_report, returned, exit_code>>
vars == <<fs, parallel, max_workers, pc, test_modules, task, outcome, call,
          collected, results, report, saved_report, returned, exit_code, fcall, analyzerVars, serviceVars>>

\* ---------------------------------------------------------------- helpers

Range(s) == {s[i] : i \in DOMAIN s}

RECURSIVE SumOver(_, _)
\* sum of f[x] over the finite set S
SumOver(f, S) ==
    IF S = {} THEN 0
    ELSE LET x == CHOOSE y \in S : TRUE IN f[x] + SumOver(f, S \ {x})

\* the bag (multiset) of the elements of a sequence
SeqToBag(s) == [x \in Range(s) |-> Cardinality({i \in DOMAIN s : s[i] = x})]

\* ------------------------------------------------------- fractions (floats)

Frac(n, d) == [num |-> n, den |-> d]
FracEq(a, b) == a.num * b.den = b.num * a.den

\* ---------------------------------------------------------------- discovery

\* The test files a project root can hold, in one directory iteration order:
\* adapter modules before workflow modules, unit_tests before
\* integration_tests inside a module.
FileUniverse == <<
    [module_name |-> "m1", module_type |-> "adapter", test_type |-> "unit",
     test_file |-> [name |-> "test_a.py"],
     test_path |-> "mcp/adapter/m1/unit_tests/test_a.py"],
    [module_name |-> "m1", module_type |-> "adapter", test_type |-> "integration",
     test_file |-> [name |-> "test_b.py"],
     test_path |-> "mcp/adapter/m1/integration_tests/test_b.py"],
    [module_name |-> "m2", module_type |-> "workflow", test_type |-> "unit",
     test_file |-> [name |-> "test_a.py"],
     test_path |-> "mcp/workflow/m2/unit_tests/test_a.py"],
    [module_name |-> "m2", module_type |-> "workflow", test_type |-> "integration",
     test_file |-> [name |-> "test_d.py"],
     test_path |-> "mcp/workflow/m2/integration_tests/test_d.py"] >>

RECURSIVE DiscoverFrom(_, _)
\* the descriptors of the existing files among FileUniverse[k..], in order
DiscoverFrom(files, k) ==
    IF k > Len(FileUniverse) THEN <<>>
    ELSE (IF k \in files THEN <<FileUniverse[k]>> ELSE <<>>)
         \o DiscoverFrom(files, k + 1)

discover_all_tests(files) == DiscoverFrom(files, 1)

\* ------------------------------------------------------------------ Runner

\* A Python str: text names the string, len is the number of its leading
\* characters that are kept (all of them unless it was sliced).
Str(text, n) == [text |-> text, len |-> n]

ExitCodes == {0, 1, 2}
\* measured wall-clock seconds of a subprocess that exits
ElapsedSeconds == {1}
StderrTexts == {Str("", 0), Str("Traceback", 9)}

\* What subprocess.run can do for one test.
SubprocessOutcomes ==
    [kind : {"exit"}, returncode : ExitCodes, elapsed : ElapsedSeconds,
     stderr : StderrTexts]
    \cup {[kind |-> "timeout"], [kind |-> "launch_error"]}

\* The Future of a task resolving with an exception instead of a record.
PoolFault == [kind |-> "pool_fault"]

Returns(rec) == [kind |-> "return", value |-> rec]
Raises == [kind |-> "raise"]

MkRecord(test_info, status, duration, stderr, return_code) ==
    [module_name |-> test_info.module_name,
     test_type   |-> test_info.test_type,
     test_file   |-> test_info.test_file.name,
     test_path   |-> test_info.test_path,
     status      |-> status,
     duration    |-> duration,
     stderr      |-> stderr,
     return_code |-> return_code]

\* Faulty variant of execute_single_test: the except subprocess.TimeoutExpired
\* clause is missing, so a timeout is caught by except Exception.
execute_single_test_NoTimeoutClause(test_info, out) ==
    IF out.kind = "exit"
    THEN Returns(MkRecord(test_info,
                          IF out.returncode = 0 THEN "PASS" ELSE "FAIL",
                          out.elapsed, out.stderr, out.returncode))
    ELSE Returns(MkRecord(test_info, "ERROR", 0, Str("exception", 9), -2))

\* execute_single_test: the call's result for one subprocess outcome.
execute_single_test(test_info, out) ==
    IF out.kind = "exit"
    THEN \* try body: success = result.returncode == 0
         Returns(MkRecord(test_info,
                          IF out.returncode = 0 THEN "PASS" ELSE "FAIL",
                          out.elapsed, out.stderr, out.returncode))
    ELSE IF out.kind = "timeout"
    THEN \* except subprocess.TimeoutExpired
         Returns(MkRecord(test_info, "TIMEOUT", TIMEOUT_SECONDS,
                          Str("Test execution timeout (300s)", 29), -1))
    ELSE \* except Exception as e
         Returns(MkRecord(test_info, "ERROR", 0, Str("exception", 9), -2))

\* The record execute_tests_parallel synthesizes when future.result() raises.
error_result(test_info) ==
    MkRecord(test_info, "ERROR", 0, Str("Execution error: exception", 26), -3)

\* ------------------------------------------------------------------ report

ZeroStats == [total |-> 0, passed |-> 0, failed |-> 0, timeout |-> 0, error |-> 0]

CountStatus(test_results, status) ==
    Cardinality({i \in DOMAIN test_results : test_results[i].status = status})

\* Faulty variant of module_stats_add: the elif for TIMEOUT is missing.
module_stats_add_NoTimeout(stats, status) ==
    [total   |-> stats.total + 1,
     passed  |-> IF status = "PASS" THEN stats.passed + 1 ELSE stats.passed,
     failed  |-> IF status = "FAIL" THEN stats.failed + 1 ELSE stats.failed,
     timeout |-> stats.timeout,
     error   |-> IF status = "ERROR" THEN stats.error + 1 ELSE stats.error]

\* one pass of the body of the per-module loop on the entry of the module
module_stats_add(stats, status) ==
    [total   |-> stats.total + 1,
     passed  |-> IF status = "PASS" THEN stats.passed + 1 ELSE stats.passed,
     failed  |-> IF status = "FAIL" THEN stats.failed + 1 ELSE stats.failed,
     timeout |-> IF status = "TIMEOUT" THEN stats.timeout + 1 ELSE stats.timeout,
     error   |-> IF status = "ERROR" THEN stats.error + 1 ELSE stats.error]

\* one pass of the body of the per-type loop on the entry of the test type
type_stats_add(stats, status) ==
    [total   |-> stats.total + 1,
     passed  |-> IF status = "PASS" THEN stats.passed + 1 ELSE stats.passed,
     failed  |-> IF status = "FAIL" THEN stats.failed + 1 ELSE stats.failed,
     timeout |-> IF status = "TIMEOUT" THEN stats.timeout + 1 ELSE stats.timeout,
     error   |-> IF status = "ERROR" THEN stats.error + 1 ELSE stats.error]

RECURSIVE ModuleStatsLoop_Consecutive(_, _, _)
\* Faulty variant of ModuleStatsLoop: the entry of a module starts again from
\* zero whenever the previous record belongs to another module (grouping of
\* consecutive records only).
ModuleStatsLoop_Consecutive(test_results, k, module_stats) ==
    IF k > Len(test_results) THEN module_stats
    ELSE LET module_name == test_results[k].module_name
             entry == IF /\ module_name \in DOMAIN module_stats
                         /\ (k = 1 \/ test_results[k - 1].module_name = module_name)
                      THEN module_stats[module_name] ELSE ZeroStats
             added == module_stats_add(entry, test_results[k].status)
         IN ModuleStatsLoop_Consecutive(test_results, k + 1,
               [m \in DOMAIN module_stats \cup {module_name} |->
                   IF m = module_name THEN added ELSE module_stats[m]])

RECURSIVE ModuleStatsLoop(_, _, _)
\* for result in test_results: ... module_stats[module_name][...] += 1
ModuleStatsLoop(test_results, k, module_stats) ==
    IF k > Len(test_results) THEN module_stats
    ELSE LET module_name == test_results[k].module_name
             entry == IF module_name \in DOMAIN module_stats
                      THEN module_stats[module_name] ELSE ZeroStats
             added == module_stats_add(entry, test_results[k].status)
         IN ModuleStatsLoop(test_results, k + 1,
               [m \in DOMAIN module_stats \cup {module_name} |->
                   IF m = module_name THEN added ELSE module_stats[m]])

RECURSIVE TypeStatsLoop(_, _, _)
\* for result in test_results: ... type_stats[test_type][...] += 1
TypeStatsLoop(test_results, k, type_stats) ==
    IF k > Len(test_results) THEN type_stats
    ELSE LET test_type == test_results[k].test_type
             entry == IF test_type \in DOMAIN type_stats
                      THEN type_stats[test_type] ELSE ZeroStats
             added == type_stats_add(entry, test_results[k].status)
         IN TypeStatsLoop(test_results, k + 1,
               [t \in DOMAIN type_stats \cup {test_type} |->
                   IF t = test_type THEN added ELSE type_stats[t]])

\* Faulty variant of executor_success_rate: floor division.
executor_success_rate_FloorDiv(passed_tests, total_tests) ==
    IF total_tests > 0
    THEN Frac((passed_tests \div total_tests) * 100, 1)
    ELSE Frac(0, 1)

\* (passed_tests / total_tests * 100) if total_tests > 0 else 0
executor_success_rate(passed_tests, total_tests) ==
    IF total_tests > 0 THEN Frac(passed_tests * 100, total_tests) ELSE Frac(0, 1)

\* Faulty variant of Slice: the whole string, whatever k.
Slice_Whole(s, k) == s

\* s[:k]
Slice(s, k) == IF s.len <= k THEN s ELSE Str(s.text, k)

ERROR_EXCERPT == 500

RECURSIVE FailedTestsSummary(_, _)
\* [... for r in test_results if r['status'] in ['FAIL', 'TIMEOUT', 'ERROR']]
FailedTestsSummary(test_results, k) ==
    IF k > Len(test_results) THEN <<>>
    ELSE LET r == test_results[k]
         IN (IF r.status \in {"FAIL", "TIMEOUT", "ERROR"}
             THEN << [module    |-> r.module_name,
                      test_type |-> r.test_type,
                      test_file |-> r.test_file,
                      status    |-> r.status,
                      error     |-> IF r.stderr.len > 0
                                    THEN Slice(r.stderr, ERROR_EXCERPT)
                                    ELSE Str("No error message", 16)] >>
             ELSE <<>>)
            \o FailedTestsSummary(test_results, k + 1)

EmptyMap == [x \in {} |-> ZeroStats]

generate_comprehensive_report(test_results) ==
    LET total_tests   == Len(test_results)
        passed_tests  == CountStatus(test_results, "PASS")
        failed_tests  == CountStatus(test_results, "FAIL")
        timeout_tests == CountStatus(test_results, "TIMEOUT")
        error_tests   == CountStatus(test_results, "ERROR")
    IN [kind |-> "report",
        execution_summary |->
            [total_tests   |-> total_tests,
             passed_tests  |-> passed_tests,
             failed_tests  |-> failed_tests,
             timeout_tests |-> timeout_tests,
             error_tests   |-> error_tests,
             success_rate  |-> executor_success_rate(passed_tests, total_tests)],
        module_statistics   |-> ModuleStatsLoop(test_results, 1, EmptyMap),
        type_statistics     |-> TypeStatsLoop(test_results, 1, EmptyMap),
        detailed_results    |-> test_results,
        failed_tests_summary |-> FailedTestsSummary(test_results, 1)]

\* ------------------------------------------------- run_all_tests: actions

Indices == DOMAIN test_modules
Running == {i \in Indices : task[i] = "running"}
Queued == {i \in Indices : task[i] = "queued"}
Unfinished == {i \in Indices : task[i] \in {"queued", "running"}}

\* State after MCPTestExecutor(project_root) and main's argument parsing.
ExecInit ==
    /\ fs \in {f \in SUBSET (1..Len(FileUniverse)) : Cardinality(f) <= MaxTests}
    /\ parallel \in BOOLEAN
    /\ max_workers \in 0..MaxWorkers
    /\ pc = "start"
    /\ test_modules = <<>>
    /\ task = <<>>
    /\ outcome = <<>>
    /\ call = <<>>
    /\ collected = <<>>
    /\ results = <<>>
    /\ report = None
    /\ saved_report = None
    /\ returned = "pending"
    /\ exit_code = -1

\* run_all_tests up to the choice of the mode: discovery, the empty check.
Discover ==
    /\ pc = "start"
    /\ LET found == discover_all_tests(fs)
       IN /\ test_modules' = found
          /\ task' = [i \in DOMAIN found |-> "new"]
          /\ outcome' = [i \in DOMAIN found |-> None]
          /\ call' = [i \in DOMAIN found |-> None]
          /\ IF found = <<>>
             THEN \* return False; main: sys.exit(1)
                  /\ pc' = "done"
                  /\ returned' = "false"
                  /\ exit_code' = 1
             ELSE /\ pc' = IF parallel THEN "pool" ELSE "sequential"
                  /\ UNCHANGED <<returned, exit_code>>
    /\ UNCHANGED <<fs, parallel, max_workers, collected, results, report,
                   saved_report, fcall, analyzerVars, serviceVars>>

\* with ThreadPoolExecutor(max_workers=max_workers): the constructor raises
\* ValueError for max_workers <= 0, which nothing catches.
EnterPool ==
    /\ pc = "pool"
    /\ IF max_workers <= 0
       THEN /\ pc' = "done"
            /\ returned' = "raised"
            /\ exit_code' = 1
       ELSE /\ pc' = "submit"
            /\ UNCHANGED <<returned, exit_code>>
    /\ UNCHANGED <<fs, parallel, max_workers, test_modules, task, outcome, call,
                   collected, results, report, saved_report, fcall, analyzerVars, serviceVars>>

\* executor.submit(self.execute_single_test, test) for the next test of the
\* dict comprehension; the work item is put on the pool's queue.
Submit(i) ==
    /\ pc = "submit"
    /\ task[i] = "new"
    /\ \A j \in Indices : j < i => task[j] # "new"
    /\ task' = [task EXCEPT ![i] = "queued"]
    /\ pc' = IF i = Len(test_modules) THEN "collect" ELSE "submit"
    /\ UNCHANGED <<fs, parallel, max_workers, test_modules, outcome, call,
                   collected, results, report, saved_report, returned,
                   exit_code, fcall, analyzerVars, serviceVars>>

\* Faulty variant of WorkerStart: the pool starts a thread per work item.
WorkerStart_Unbounded(i) ==
    /\ pc \in {"submit", "collect"}
    /\ task[i] = "queued"
    /\ \A j \in Queued : i <= j
    /\ task' = [task EXCEPT ![i] = "running"]
    /\ UNCHANGED <<fs, parallel, max_workers, pc, test_modules, outcome, call,
                   collected, results, report, saved_report, returned,
                   exit_code, fcall, analyzerVars, serviceVars>>

\* A pool thread takes the oldest work item off the queue and calls
\* execute_single_test; the pool has at most max_workers threads.
WorkerStart(i) ==
    /\ pc \in {"submit", "collect"}
    /\ task[i] = "queued"
    /\ \A j \in Queued : i <= j
    /\ Cardinality(Running) < max_workers
    /\ task' = [task EXCEPT ![i] = "running"]
    /\ UNCHANGED <<fs, parallel, max_workers, pc, test_modules, outcome, call,
                   collected, results, report, saved_report, returned,
                   exit_code, fcall, analyzerVars, serviceVars>>

\* The subprocess of a running pool task ends; execute_single_test returns (or
\* raises) and the pool stores that in the task's Future.
WorkerFinish(i, out) ==
    /\ pc \in {"submit", "collect"}
    /\ task[i] = "running"
    /\ outcome' = [outcome EXCEPT ![i] = out]
    /\ call' = [call EXCEPT ![i] = execute_single_test(test_modules[i], out)]
    /\ task' = [task EXCEPT ![i] = "finished"]
    /\ UNCHANGED <<fs, parallel, max_workers, pc, test_modules, collected,
                   results, report, saved_report, returned, exit_code, fcall, analyzerVars, serviceVars>>

\* The Future of a running pool task resolves with an exception that does not
\* come from the subprocess handling of execute_single_test.
WorkerFault(i) ==
    /\ pc \in {"submit", "collect"}
    /\ task[i] = "running"
    /\ outcome' = [outcome EXCEPT ![i] = PoolFault]
    /\ call' = [call EXCEPT ![i] = Raises]
    /\ task' = [task EXCEPT ![i] = "finished"]
    /\ UNCHANGED <<fs, parallel, max_workers, pc, test_modules, collected,
                   results, report, saved_report, returned, exit_code, fcall, analyzerVars, serviceVars>>

\* Faulty variant of Collect: the except branch only prints.
Collect_NoErrorRecord(i) ==
    /\ pc = "collect"
    /\ task[i] = "finished"
    /\ i \notin Range(collected)
    /\ collected' = Append(collected, i)
    /\ results' = IF call[i].kind = "return"
                  THEN Append(results, call[i].value)
                  ELSE results
    /\ UNCHANGED <<fs, parallel, max_workers, pc, test_modules, task, outcome,
                   call, report, saved_report, returned, exit_code, fcall, analyzerVars, serviceVars>>

\* Faulty variant of Collect: the record of a normal result is appended in
\* the try block and once more after it.
Collect_AppendTwice(i) ==
    /\ pc = "collect"
    /\ task[i] = "finished"
    /\ i \notin Range(collected)
    /\ collected' = Append(collected, i)
    /\ results' = IF call[i].kind = "return"
                  THEN Append(Append(results, call[i].value), call[i].value)
                  ELSE Append(results, error_result(test_modules[i]))
    /\ UNCHANGED <<fs, parallel, max_workers, pc, test_modules, task, outcome,
                   call, report, saved_report, returned, exit_code, fcall, analyzerVars, serviceVars>>

\* One iteration of for future in as_completed(future_to_test): a finished
\* Future not yet yielded is yielded; its result, or the synthesized ERROR
\* record when future.result() raises, is appended.
Collect(i) ==
    /\ pc = "collect"
    /\ task[i] = "finished"
    /\ i \notin Range(collected)
    /\ collected' = Append(collected, i)
    /\ results' = IF call[i].kind = "return"
                  THEN Append(results, call[i].value)
                  ELSE Append(results, error_result(test_modules[i]))
    /\ UNCHANGED <<fs, parallel, max_workers, pc, test_modules, task, outcome,
                   call, report, saved_report, returned, exit_code, fcall, analyzerVars, serviceVars>>

\* Faulty variant of ReturnParallel: returns without waiting for the Futures.
ReturnParallel_NoWait ==
    /\ pc = "collect"
    /\ pc' = "report"
    /\ UNCHANGED <<fs, parallel, max_workers, test_modules, task, outcome, call,
                   collected, results, report, saved_report, returned,
                   exit_code, fcall, analyzerVars, serviceVars>>

\* as_completed is exhausted once every Future was yielded; the with block
\* exits (shutdown(wait=True)) and execute_tests_parallel returns results.
ReturnParallel ==
    /\ pc = "collect"
    /\ Range(collected) = Indices
    /\ Unfinished = {}
    /\ pc' = "report"
    /\ UNCHANGED <<fs, parallel, max_workers, test_modules, task, outcome, call,
                   collected, results, report, saved_report, returned,
                   exit_code, fcall, analyzerVars, serviceVars>>

\* Faulty variant of SeqStart: the loop takes the tests in any order.
SeqStart_AnyOrder(i) ==
    /\ pc = "sequential"
    /\ task[i] = "new"
    /\ Running = {}
    /\ task' = [task EXCEPT ![i] = "running"]
    /\ UNCHANGED <<fs, parallel, max_workers, pc, test_modules, outcome, call,
                   collected, results, report, saved_report, returned,
                   exit_code, fcall, analyzerVars, serviceVars>>

\* for test_info in test_modules: the call of execute_single_test for the next
\* test, which starts its subprocess.
SeqStart(i) ==
    /\ pc = "sequential"
    /\ i = Len(results) + 1
    /\ task[i] = "new"
    /\ task' = [task EXCEPT ![i] = "running"]
    /\ UNCHANGED <<fs, parallel, max_workers, pc, test_modules, outcome, call,
                   collected, results, report, saved_report, returned,
                   exit_code, fcall, analyzerVars, serviceVars>>

\* Faulty variant of SeqFinish: the loop ends at the first record that is not
\* PASS.
SeqFinish_StopAtFailure(i, out) ==
    /\ pc = "sequential"
    /\ task[i] = "running"
    /\ LET c == execute_single_test(test_modules[i], out)
       IN /\ outcome' = [outcome EXCEPT ![i] = out]
          /\ call' = [call EXCEPT ![i] = c]
          /\ task' = [task EXCEPT ![i] = "finished"]
          /\ collected' = Append(collected, i)
          /\ results' = Append(results, c.value)
          /\ pc' = IF c.value.status # "PASS" THEN "report" ELSE "sequential"
          /\ UNCHANGED <<returned, exit_code>>
    /\ UNCHANGED <<fs, parallel, max_workers, test_modules, report,
                   saved_report, fcall, analyzerVars, serviceVars>>

\* The subprocess of the sequential loop's current test ends:
\* execute_single_test returns and results.append(result); an exception of the
\* call would leave run_all_tests and main.
SeqFinish(i, out) ==
    /\ pc = "sequential"
    /\ task[i] = "running"
    /\ LET c == execute_single_test(test_modules[i], out)
       IN /\ outcome' = [outcome EXCEPT ![i] = out]
          /\ call' = [call EXCEPT ![i] = c]
          /\ task' = [task EXCEPT ![i] = "finished"]
          /\ IF c.kind = "return"
             THEN /\ collected' = Append(collected, i)
                  /\ results' = Append(results, c.value)
                  /\ UNCHANGED <<pc, returned, exit_code>>
             ELSE /\ pc' = "done"
                  /\ returned' = "raised"
                  /\ exit_code' = 1
                  /\ UNCHANGED <<collected, results>>
    /\ UNCHANGED <<fs, parallel, max_workers, test_modules, report,
                   saved_report, fcall, analyzerVars, serviceVars>>

\* The sequential loop is exhausted; execute_tests_sequential returns results.
ReturnSequential ==
    /\ pc = "sequential"
    /\ Len(results) = Len(test_modules)
    /\ pc' = "report"
    /\ UNCHANGED <<fs, parallel, max_workers, test_modules, task, outcome, call,
                   collected, results, report, saved_report, returned,
                   exit_code, fcall, analyzerVars, serviceVars>>

\* comprehensive_report = self.generate_comprehensive_report(test_results)
GenerateReport ==
    /\ pc = "report"
    /\ report' = generate_comprehensive_report(results)
    /\ pc' = "save"
    /\ UNCHANGED <<fs, parallel, max_workers, test_modules, task, outcome, call,
                   collected, results, saved_report, returned, exit_code, fcall, analyzerVars, serviceVars>>

AllPassed(rep) ==
    rep.execution_summary.failed_tests + rep.execution_summary.timeout_tests
        + rep.execution_summary.error_tests = 0

\* Faulty variant of SaveAndReturn: a failed write is swallowed and the run
\* goes on to return all_passed.
SaveAndReturn_SwallowWriteError(written) ==
    /\ pc = "save"
    /\ saved_report' = IF written THEN report ELSE saved_report
    /\ returned' = IF AllPassed(report) THEN "true" ELSE "false"
    /\ exit_code' = IF AllPassed(report) THEN 0 ELSE 1
    /\ pc' = "done"
    /\ UNCHANGED <<fs, parallel, max_workers, test_modules, task, outcome, call,
                   collected, results, report, fcall, analyzerVars, serviceVars>>

\* save_report, print_summary and the return of run_all_tests, then main.
\* written = FALSE: open or json.dump raises (the write failure propagates,
\* Python exits with status 1).
SaveAndReturn(written) ==
    /\ pc = "save"
    /\ IF written
       THEN /\ saved_report' = report
            /\ returned' = IF AllPassed(report) THEN "true" ELSE "false"
            /\ exit_code' = IF AllPassed(report) THEN 0 ELSE 1
       ELSE /\ saved_report' = saved_report
            /\ returned' = "raised"
            /\ exit_code' = 1
    /\ pc' = "done"
    /\ UNCHANGED <<fs, parallel, max_workers, test_modules, task, outcome, call,
                   collected, results, report, fcall, analyzerVars, serviceVars>>

NoCall == [src |-> "none"]

NoFeed == [plan |-> "none", next |-> 1, calls |-> 0]

\* PredictivePerformanceAnalyzer.__init__; no test run reports to it.
AnalyzerIdle ==
    /\ metrics_history = <<>>
    /\ analysis_history = <<>>
    /\ now = 0
    /\ created = 0
    /\ feed = NoFeed
    /\ ret = None

NoManageCall == [op |-> "none"]

\* No TestManageMCP has been built; both report directories are empty.
ManageIdle ==
    /\ wall = 0
    /\ test_dir = <<>>
    /\ reports_path = <<>>
    /\ invocations = 0
    /\ saved = <<>>
    /\ mcall = NoManageCall

NoBusCall == [op |-> "none"]

\* MessageBus.__init__: nothing subscribed, registered or published.
BusIdle ==
    /\ subscribers = <<>>
    /\ message_handlers = <<>>
    /\ event_history = <<>>
    /\ published = 0
    /\ bcall = NoBusCall

\* TestManagerMCP.__init__ (state information); no coroutine is running.
StrategyIdle ==
    /\ active_strategies = <<>>
    /\ strategies_path = <<>>
    /\ creators = <<>>

\* The execute_test_workflow coroutine: where it is, its strategy, its
\* workflow_id, the values it gave current_step, its test plan, the requests
\* it made with what came back, and how it ended.
Workflow(at, strategy, id, steps, plan, requests, result) ==
    [pc |-> at, strategy |-> strategy, id |-> id, steps |-> steps, plan |-> plan,
     requests |-> requests, result |-> result]

NoWorkflow == Workflow("none", None, None, <<>>, None, <<>>, None)

WorkflowIdle ==
    /\ active_workflows = <<>>
    /\ workflows_path = <<>>
    /\ workflow = NoWorkflow

\* No plan given, no stop_execution call made yet.
NoPlan == [id |-> "", test_cases |-> 0]
NoStop == [id |-> "", status |-> "", result |-> FALSE]

\* The execute_tests coroutine: where it is, its plan, the number of test
\* cases it has begun, its test_results, the last stop_execution call, and
\* the number of test cases begun when stop_execution first returned True
\* for the running execution (-1: it has not).
Task(at, plan, started, test_results, stop, stopped_at) ==
    [pc |-> at, plan |-> plan, started |-> started, results |-> test_results,
     stop |-> stop, stopped_at |-> stopped_at]

NoExecution == Task("none", NoPlan, 0, <<>>, NoStop, -1)

\* TestExecutionEngine.__init__ (state information); no coroutine is running.
EngineIdle ==
    /\ active_executions = <<>>
    /\ engine_task = NoExecution

ServicesIdle ==
    /\ ManageIdle
    /\ BusIdle
    /\ StrategyIdle
    /\ WorkflowIdle
    /\ EngineIdle

Init ==
    /\ ExecInit
    /\ fcall = NoCall
    /\ AnalyzerIdle
    /\ ServicesIdle

Next ==
    \/ Discover
    \/ EnterPool
    \/ \E i \in Indices : Submit(i)
    \/ \E i \in Indices : WorkerStart(i)
    \/ \E i \in Indices : \E out \in SubprocessOutcomes : WorkerFinish(i, out)
    \/ \E i \in Indices : WorkerFault(i)
    \/ \E i \in Indices : Collect(i)
    \/ ReturnParallel
    \/ \E i \in Indices : SeqStart(i)
    \/ \E i \in Indices : \E out \in SubprocessOutcomes : SeqFinish(i, out)
    \/ ReturnSequential
    \/ GenerateReport
    \/ \E written \in BOOLEAN : SaveAndReturn(written)

Spec == Init /\ [][Next]_vars

\* -------------------------------- Part 2: report and success-rate functions

\* Lists of at most MaxRecords statuses are fed to the report generators.
MaxRecords == 4
\* ExecutionResult.total_tests ranges over 0..MaxCount.
MaxCount == 8
\* A phase of a phased workflow plan has at most MaxPhaseTests tests.
MaxPhaseTests == 3

\* Lists of at most MaxOutcomes subprocess outcomes are turned into records
\* whose stderr goes into the failed_tests_summary.
MaxOutcomes == 3

Statuses == {"PASS", "FAIL", "TIMEOUT", "ERROR"}

SeqsUpTo(S, n) == UNION {[1..k -> S] : k \in 0..n}

\* A record list with the given statuses, over the files of FileUniverse.
RecordsWith(statuses) ==
    [k \in DOMAIN statuses |->
        MkRecord(FileUniverse[((k - 1) % Len(FileUniverse)) + 1], statuses[k],
                 1, Str("", 0), 0)]

\* stderr texts around the length of the error excerpt
ReportStderrTexts ==
    {Str("", 0), Str("Traceback", 9), Str("E500", ERROR_EXCERPT),
     Str("E501", ERROR_EXCERPT + 1)}

\* What subprocess.run can do for one test, with short and long stderr.
ReportOutcomes ==
    [kind : {"exit"}, returncode : {0, 1}, elapsed : ElapsedSeconds,
     stderr : ReportStderrTexts]
    \cup {[kind |-> "timeout"], [kind |-> "launch_error"]}

\* The records execute_single_test returns for the given outcomes, over the
\* files of FileUniverse.
RecordsOf(outs) ==
    [k \in DOMAIN outs |->
        execute_single_test(FileUniverse[((k - 1) % Len(FileUniverse)) + 1],
                            outs[k]).value]

\* ---------------------------------------- discovery on a directory tree

\* A file or directory name, kept in three pieces so that startswith('.') and
\* the pattern test_*.py can be evaluated: the name is prefix + stem + ext.
Name(prefix, stem, ext) == [prefix |-> prefix, stem |-> stem, ext |-> ext]
Plain(stem) == Name("", stem, "")

\* self.project_root, self.mcp_adapter_path, self.mcp_workflow_path
project_root == << Plain("/opt/powerautomation") >>
mcp_adapter_path == project_root \o << Plain("mcp"), Plain("adapter") >>
mcp_workflow_path == project_root \o << Plain("mcp"), Plain("workflow") >>

File(path) == [path |-> path, is_dir |-> FALSE]
Dir(path) == [path |-> path, is_dir |-> TRUE]

\* The leaves (files and empty directories) a project root can hold; a tree
\* is a set of leaves, and every proper prefix of a leaf is a directory.
LeafUniverse ==
    { File(mcp_adapter_path \o << Plain("m1"), Plain("unit_tests"),
                                  Name("test_", "a", ".py") >>),
      File(mcp_adapter_path \o << Plain("m1"), Plain("integration_tests"),
                                  Name("test_", "b", ".py") >>),
      File(mcp_workflow_path \o << Plain("m2"), Plain("unit_tests"),
                                   Name("test_", "a", ".py") >>),
      File(mcp_workflow_path \o << Plain("m2"), Plain("integration_tests"),
                                   Name("test_", "d", ".py") >>),
      \* a test file inside a hidden module directory
      File(mcp_adapter_path \o << Name(".", "cache", ""), Plain("unit_tests"),
                                  Name("test_", "h", ".py") >>),
      \* a file of a test directory that does not match test_*.py
      File(mcp_adapter_path \o << Plain("m1"), Plain("unit_tests"),
                                  Name("", "helper", ".py") >>),
      \* a matching name outside unit_tests and integration_tests
      File(mcp_workflow_path \o << Plain("m3"), Plain("docs"),
                                   Name("test_", "x", ".py") >>),
      \* a matching name one directory below a test directory
      File(mcp_workflow_path \o << Plain("m2"), Plain("unit_tests"),
                                   Plain("nested"), Name("test_", "n", ".py") >>),
      \* a plain file next to the module directories
      File(mcp_adapter_path \o << Name("", "README", ".md") >>),
      \* a module directory with an empty unit_tests directory
      Dir(mcp_workflow_path \o << Plain("m3"), Plain("unit_tests") >>) }

IsPrefix(path, other) ==
    Len(path) <= Len(other) /\ SubSeq(other, 1, Len(path)) = path

\* Path.exists()
Exists(tree, path) == \E e \in tree : IsPrefix(path, e.path)

\* Path.is_dir()
IsDir(tree, path) ==
    \E e \in tree : IsPrefix(path, e.path) /\ (e.path # path \/ e.is_dir)

\* the entries of Path.iterdir()
Children(tree, path) ==
    {SubSeq(e.path, 1, Len(path) + 1) :
        e \in {x \in tree : IsPrefix(path, x.path) /\ Len(x.path) > Len(path)}}

BaseName(path) == path[Len(path)]

\* fnmatch of a name against 'test_*.py'
MatchesTestPattern(name) == name.prefix = "test_" /\ name.ext = ".py"

\* name.startswith('.')
StartsWithDot(name) == name.prefix = "."

RECURSIVE Listing(_)
\* The elements of a set in one order (the operating system decides the order
\* in which iterdir and glob yield entries).
Listing(S) ==
    IF S = {} THEN <<>>
    ELSE LET x == CHOOSE y \in S : TRUE IN <<x>> \o Listing(S \ {x})

\* Path.glob('test_*.py')
Glob(tree, dir) ==
    Listing({c \in Children(tree, dir) : MatchesTestPattern(BaseName(c))})

\* test_file.relative_to(self.project_root)
relative_to(path, root) == SubSeq(path, Len(root) + 1, Len(path))

\* the dict _discover_module_tests appends for one test file
Descriptor(module_dir, module_type, test_type, test_file) ==
    [module_name |-> BaseName(module_dir),
     module_type |-> module_type,
     test_type   |-> test_type,
     test_file   |-> test_file,
     test_path   |-> relative_to(test_file, project_root)]

\* _discover_module_tests
discover_module_tests(tree, module_dir, module_type) ==
    LET unit_tests_dir == Append(module_dir, Plain("unit_tests"))
        integration_tests_dir == Append(module_dir, Plain("integration_tests"))
        unit_files == IF Exists(tree, unit_tests_dir)
                      THEN Glob(tree, unit_tests_dir) ELSE <<>>
        integration_files == IF Exists(tree, integration_tests_dir)
                             THEN Glob(tree, integration_tests_dir) ELSE <<>>
    IN [k \in DOMAIN unit_files |->
            Descriptor(module_dir, module_type, "unit", unit_files[k])]
       \o [k \in DOMAIN integration_files |->
            Descriptor(module_dir, module_type, "integration", integration_files[k])]

\* Faulty variant of is_module_dir: hidden directories are not skipped.
is_module_dir_NoHiddenCheck(tree, module_dir) == IsDir(tree, module_dir)

\* module_dir.is_dir() and not module_dir.name.startswith('.')
is_module_dir(tree, module_dir) ==
    IsDir(tree, module_dir) /\ ~StartsWithDot(BaseName(module_dir))

RECURSIVE DiscoverCategory(_, _, _, _)
\* for module_dir in category_path.iterdir(): ... test_modules.extend(...)
DiscoverCategory(tree, entries, k, module_type) ==
    IF k > Len(entries) THEN <<>>
    ELSE (IF is_module_dir(tree, entries[k])
          THEN discover_module_tests(tree, entries[k], module_type)
          ELSE <<>>)
         \o DiscoverCategory(tree, entries, k + 1, module_type)

\* discover_all_tests on a directory tree
discover_all_tests_in(tree) ==
    (IF Exists(tree, mcp_adapter_path)
     THEN DiscoverCategory(tree, Listing(Children(tree, mcp_adapter_path)), 1,
                           "adapter")
     ELSE <<>>)
    \o (IF Exists(tree, mcp_workflow_path)
        THEN DiscoverCategory(tree, Listing(Children(tree, mcp_workflow_path)), 1,
                              "workflow")
        ELSE <<>>)

\* ExecutionResult.success_rate (a property of the dataclass)
ExecutionResult_success_rate(total_tests, passed_tests) ==
    IF total_tests = 0 THEN Frac(0, 1) ELSE Frac(passed_tests * 100, total_tests)

\* round(n / d) for n >= 0, d > 0: to the nearest integer, ties to even
RoundHalfEven(n, d) ==
    LET q == n \div d
        r == n % d
    IN IF 2 * r < d THEN q
       ELSE IF 2 * r > d THEN q + 1
       ELSE IF q % 2 = 0 THEN q ELSE q + 1

\* round(x, 2) of the float x = n / d >= 0, as a fraction of hundredths
Round2(x) == Frac(RoundHalfEven(x.num * 100, x.den), 100)

RECURSIVE SumField(_, _, _)
\* sum(r.get(field, 0) for r in rs[k..])
SumField(rs, field, k) ==
    IF k > Len(rs) THEN 0 ELSE rs[k][field] + SumField(rs, field, k + 1)

\* success_rate = (total_passed / total_tests * 100) if total_tests > 0 else 0
workflow_success_rate(total_passed, total_tests) ==
    IF total_tests > 0 THEN Frac(total_passed * 100, total_tests) ELSE Frac(0, 1)

\* TestManagerMCP._generate_test_report: the test_execution_summary.
generate_test_report(wresults) ==
    LET phased == wresults # <<>> /\ "phase" \in DOMAIN wresults[1]
        total_tests  == IF phased THEN SumField(wresults, "total_tests", 1)
                        ELSE Len(wresults)
        total_passed == IF phased THEN SumField(wresults, "passed", 1)
                        ELSE Cardinality({i \in DOMAIN wresults :
                                            wresults[i].status = "passed"})
        total_failed == IF phased THEN SumField(wresults, "failed", 1)
                        ELSE Cardinality({i \in DOMAIN wresults :
                                            wresults[i].status = "failed"})
        success_rate == workflow_success_rate(total_passed, total_tests)
    IN [total_tests  |-> total_tests,
        passed       |-> total_passed,
        failed       |-> total_failed,
        success_rate |-> Round2(success_rate)]

\* The results lists _execute_template_tests can return.
TemplateResults == SeqsUpTo({[status |-> "passed"], [status |-> "failed"]}, MaxRecords)

\* The phase results _execute_phased_tests can return for one phase.
PhaseResults ==
    {r \in [phase : {1}, total_tests : 0..MaxPhaseTests,
            passed : 0..MaxPhaseTests, failed : 0..MaxPhaseTests] :
        r.passed <= r.total_tests /\ r.failed = r.total_tests - r.passed}

\* ------------------- Part 3: PredictivePerformanceAnalyzer, the statistics

\* Lists of at most MaxSamples values are fed to the trend and anomaly
\* helpers, next to the series of AnomalySeries.
MaxSamples == 4

\* values of the samples of short windows
SampleValues == {0, 1, 5, 10, 11, 12}

RECURSIVE SumFrom(_, _)
\* sum(values[k:])
SumFrom(values, k) ==
    IF k > Len(values) THEN 0 ELSE values[k] + SumFrom(values, k + 1)

\* sum(values)
Sum(values) == SumFrom(values, 1)

\* sum(v ** 2 for v in values)
SumSquares(values) == Sum([k \in DOMAIN values |-> values[k] * values[k]])

\* sum(x[i] * y[i] for i in range(n)) with x = list(range(n))
SumXY(values) == Sum([k \in DOMAIN values |-> (k - 1) * values[k]])

\* statistics.mean
Mean(values) == Frac(Sum(values), Len(values))

\* The square of statistics.stdev (sample standard deviation, n - 1 in the
\* denominator) of at least two values.
Variance(values) ==
    LET n == Len(values)
    IN Frac(n * SumSquares(values) - Sum(values) * Sum(values), n * (n - 1))

\* A float that is the square root of a fraction.
Sqrt(x) == [sqrt_of |-> x]

\* statistics.stdev
Stdev(values) == Sqrt(Variance(values))

\* a < b for fractions with positive denominators
FracLess(a, b) == a.num * b.den < b.num * a.den

\* cv > 0.3 where cv = std_dev / mean_value if mean_value != 0 else 0,
\* for at least two values. With a positive mean, std_dev / mean > 3/10 is
\* 100 * variance > 9 * mean ** 2; with a negative mean cv is not positive.
CvAboveThreshold(values) ==
    LET n  == Len(values)
        sm == Sum(values)
        vn == n * SumSquares(values) - sm * sm
    IN sm > 0 /\ 100 * vn * n > 9 * sm * sm * (n - 1)

\* slope = (n * sum_xy - sum_x * sum_y) / (n * sum_x2 - sum_x ** 2) over
\* x = 0 .. n-1, for at least two values
TrendSlope(values) ==
    LET n      == Len(values)
        sum_x  == Sum([k \in 1..n |-> k - 1])
        sum_x2 == Sum([k \in 1..n |-> (k - 1) * (k - 1)])
    IN Frac(n * SumXY(values) - sum_x * Sum(values), n * sum_x2 - sum_x * sum_x)

\* Faulty variant of calculate_trend_direction: the slope is looked at before
\* the coefficient of variation.
calculate_trend_direction_SlopeFirst(values) ==
    IF Len(values) < 3 THEN "stable"
    ELSE IF FracLess(Frac(1, 10), TrendSlope(values)) THEN "improving"
    ELSE IF FracLess(TrendSlope(values), Frac(-1, 10)) THEN "degrading"
    ELSE IF CvAboveThreshold(values) THEN "volatile"
    ELSE "stable"

\* _calculate_trend_direction: the value of the TrendDirection returned
calculate_trend_direction(values) ==
    IF Len(values) < 3 THEN "stable"
    ELSE IF CvAboveThreshold(values) THEN "volatile"
    ELSE IF FracLess(Frac(1, 10), TrendSlope(values)) THEN "improving"
    ELSE IF FracLess(TrendSlope(values), Frac(-1, 10)) THEN "degrading"
    ELSE "stable"

Abs(x) == IF x < 0 THEN -x ELSE x

\* abs(value - mean_value) > sigmas * std_dev for at least two values:
\* squared, (n*value - sum)**2 * (n-1) > sigmas**2 * n * (n*sum_sq - sum**2)
DeviatesMoreThan(values, value, sigmas) ==
    LET n  == Len(values)
        sm == Sum(values)
        vn == n * SumSquares(values) - sm * sm
        d  == n * value - sm
    IN d * d * (n - 1) > sigmas * sigmas * n * vn

RECURSIVE AnomaliesFrom(_, _, _)
\* for i, value in enumerate(values): if abs(value - mean) > threshold: ...
AnomaliesFrom(values, k, sigmas) ==
    IF k > Len(values) THEN <<>>
    ELSE (IF DeviatesMoreThan(values, values[k], sigmas)
          THEN << [index     |-> k - 1,
                   value     |-> values[k],
                   deviation |-> Frac(Abs(Len(values) * values[k] - Sum(values)),
                                      Len(values)),
                   type      |-> IF FracLess(Mean(values), Frac(values[k], 1))
                                 THEN "high" ELSE "low"] >>
          ELSE <<>>)
         \o AnomaliesFrom(values, k + 1, sigmas)

\* Faulty variant of detect_anomalies: a 2-sigma rule.
detect_anomalies_TwoSigma(values) ==
    IF Len(values) < 3 THEN <<>> ELSE AnomaliesFrom(values, 1, 2)

\* _detect_anomalies: threshold = 3 * std_dev
detect_anomalies(values) ==
    IF Len(values) < 3 THEN <<>> ELSE AnomaliesFrom(values, 1, 3)

\* A series of n values, all base except the one at position pos.
SeriesWithOutlier(n, pos, base, outlier) ==
    [k \in 1..n |-> IF k = pos THEN outlier ELSE base]

\* Series of ten and of eleven values with one value far from the others.
AnomalySeries ==
    {SeriesWithOutlier(n, pos, 10, 1000) : n \in {10, 11}, pos \in 1..11}
    \cup {SeriesWithOutlier(n, pos, 1000, 10) : n \in {10, 11}, pos \in 1..11}

\* A pending call of one of the computations, and the call returned.
Call(src, args) ==
    [src |-> src, args |-> args, state |-> "called", result |-> None]
Return(c, result) ==
    [src |-> c.src, args |-> c.args, state |-> "returned", result |-> result]

Calls ==
    {Call("executor", statuses) : statuses \in SeqsUpTo(Statuses, MaxRecords)}
    \cup {Call("execution_result", [total_tests |-> t, passed_tests |-> p]) :
            t \in 0..MaxCount, p \in 0..MaxCount}
    \cup {Call("workflow", w) : w \in TemplateResults}
    \cup {Call("workflow", w) : w \in SeqsUpTo(PhaseResults, 2) \ {<<>>}}
    \cup {Call("discover", tree) : tree \in SUBSET LeafUniverse}
    \cup {Call("trend_direction", values) :
            values \in SeqsUpTo(SampleValues, MaxSamples)}
    \cup {Call("detect_anomalies", values) :
            values \in SeqsUpTo(SampleValues, MaxSamples) \cup AnomalySeries}
    \cup {Call("executor_outcomes", outs) :
            outs \in SeqsUpTo(ReportOutcomes, MaxOutcomes)}

\* generate_comprehensive_report on a list of records
ExecutorReport ==
    /\ fcall.src = "executor"
    /\ fcall.state = "called"
    /\ fcall' = Return(fcall, generate_comprehensive_report(RecordsWith(fcall.args)))
    /\ UNCHANGED <<execVars, analyzerVars, serviceVars>>

\* generate_comprehensive_report on the records of a list of outcomes
ExecutorReportOfOutcomes ==
    /\ fcall.src = "executor_outcomes"
    /\ fcall.state = "called"
    /\ fcall' = Return(fcall, generate_comprehensive_report(RecordsOf(fcall.args)))
    /\ UNCHANGED <<execVars, analyzerVars, serviceVars>>

\* discover_all_tests on a directory tree
DiscoverTree ==
    /\ fcall.src = "discover"
    /\ fcall.state = "called"
    /\ fcall' = Return(fcall, Returns(discover_all_tests_in(fcall.args)))
    /\ UNCHANGED <<execVars, analyzerVars, serviceVars>>

\* _calculate_trend_direction on a list of values
TrendDirectionOf ==
    /\ fcall.src = "trend_direction"
    /\ fcall.state = "called"
    /\ fcall' = Return(fcall, calculate_trend_direction(fcall.args))
    /\ UNCHANGED <<execVars, analyzerVars, serviceVars>>

\* _detect_anomalies on a list of values
DetectAnomalies ==
    /\ fcall.src = "detect_anomalies"
    /\ fcall.state = "called"
    /\ fcall' = Return(fcall, detect_anomalies(fcall.args))
    /\ UNCHANGED <<execVars, analyzerVars, serviceVars>>

\* reading success_rate of an ExecutionResult
ExecutionResultRate ==
    /\ fcall.src = "execution_result"
    /\ fcall.state = "called"
    /\ fcall' = Return(fcall,
          [total_tests  |-> fcall.args.total_tests,
           passed_tests |-> fcall.args.passed_tests,
           success_rate |-> ExecutionResult_success_rate(fcall.args.total_tests,
                                                         fcall.args.passed_tests)])
    /\ UNCHANGED <<execVars, analyzerVars, serviceVars>>

\* _generate_test_report on template or phase results
WorkflowReport ==
    /\ fcall.src = "workflow"
    /\ fcall.state = "called"
    /\ fcall' = Return(fcall, generate_test_report(fcall.args))
    /\ UNCHANGED <<execVars, analyzerVars, serviceVars>>

\* One call with its arguments; no run of the executor takes place.
PureInit ==
    /\ fs = {}
    /\ parallel = FALSE
    /\ max_workers = 0
    /\ pc = "idle"
    /\ test_modules = <<>>
    /\ task = <<>>
    /\ outcome = <<>>
    /\ call = <<>>
    /\ collected = <<>>
    /\ results = <<>>
    /\ report = None
    /\ saved_report = None
    /\ returned = "pending"
    /\ exit_code = -1
    /\ fcall \in {c \in Calls : c.src = "execution_result"
                                 => c.args.passed_tests <= c.args.total_tests}
    /\ AnalyzerIdle
    /\ ServicesIdle

PureNext ==
    \/ ExecutorReport
    \/ ExecutorReportOfOutcomes
    \/ DiscoverTree
    \/ TrendDirectionOf
    \/ DetectAnomalies
    \/ ExecutionResultRate
    \/ WorkflowReport

PureSpec == PureInit /\ [][PureNext]_vars

\* ---------------- Part 3: PredictivePerformanceAnalyzer, the state machine

\* A run of AnalyzerSpec makes at most MaxCollects calls of
\* collect_performance_metrics, asks for predictions of 0..MaxHorizon hours
\* and generates at most MaxAnalyses analyses; a run of HistorySpec follows
\* an analyzer for at most BulkCollects calls of collect_performance_metrics.
MaxCollects == 11
MaxHorizon == 2
MaxAnalyses == 1
BulkCollects == 12

\* if len(self.metrics_history) > 10000
HISTORY_CAP == 10000
\* self.metrics_history = self.metrics_history[-5000:]
HISTORY_KEEP == 5000
\* self.history_window = 168
history_window == 168
\* time_window_hours: int = 24
DEFAULT_TIME_WINDOW == 24
\* if len(historical_metrics) < 10
MIN_PREDICTION_SAMPLES == 10
\* hours that pass when the clock jumps between two calls
TICK_HOURS == 200

\* self.performance_thresholds
performance_thresholds ==
    [execution_time    |-> [warning |-> 30, critical |-> 60],
     memory_usage      |-> [warning |-> 80, critical |-> 95],
     cpu_usage         |-> [warning |-> 70, critical |-> 90],
     test_success_rate |-> [warning |-> 90, critical |-> 80],
     response_time     |-> [warning |-> 2, critical |-> 5],
     throughput        |-> [warning |-> 100, critical |-> 50]]

\* The test_results dict of the n-th test run of a plan. The numbers are
\* whole, and every quotient collect_performance_metrics computes from them
\* is whole.
Input(plan, n) ==
    CASE plan = "steady"   -> [execution_time |-> 10]
      [] plan = "rising"   -> [execution_time |-> 10 + 2 * (n - 1)]
      [] plan = "jumpy"    -> [execution_time |-> IF n % 2 = 1 THEN 1 ELSE 10]
      [] plan = "fromzero" -> [execution_time |-> n - 1]
      [] plan = "mixed"    -> IF n % 2 = 1
                              THEN [execution_time |-> 40 - n, memory_usage |-> 65]
                              ELSE [memory_usage |-> 70]
      [] plan = "broken"   -> IF n = 2
                              THEN [execution_time |-> 10, total_tests |-> 0,
                                    passed_tests |-> 0]
                              ELSE [execution_time |-> 10]
      \* the dict of the performance test of comprehensive_test_suite.py
      [] plan = "suite"    -> [execution_time |-> 25, memory_usage |-> 65,
                               cpu_usage |-> 45, total_tests |-> 100,
                               passed_tests |-> 95,
                               response_times |-> <<1, 2, 3>>]
      \* the dict of test_performance_analyzer
      [] plan = "full"     -> [execution_time |-> 25, memory_usage |-> 65,
                               cpu_usage |-> 45, total_tests |-> 100,
                               passed_tests |-> 95, failed_tests |-> 5,
                               response_times |-> <<1, 2, 3>>,
                               throughput |-> 150]

\* The test run of a plan before which a long time may pass (0: none).
GapBefore(plan) ==
    CASE plan = "jumpy"    -> 3
      [] plan = "rising"   -> 11
      [] plan = "suite"    -> 2
      [] plan = "fromzero" -> 2
      [] OTHER             -> 0

AnalysisPlans == {"steady", "rising", "jumpy", "fromzero", "mixed", "broken", "suite"}
BulkPlans == {"suite", "full"}

MetricNames == {"execution_time", "memory_usage"}

\* a / b for a quotient that is a whole number
ExactDiv(a, b) == a \div b

\* PerformanceMetric(name=..., value=..., timestamp=...); serial tells the
\* objects apart: it is the number of the object in creation order.
PerformanceMetric(name, value, timestamp, serial) ==
    [name |-> name, value |-> value, timestamp |-> timestamp, serial |-> serial]

\* The names and values collect_performance_metrics makes metrics of, in the
\* order of its six if statements.
MetricsOf(test_results) ==
    (IF "execution_time" \in DOMAIN test_results
     THEN << [name |-> "execution_time", value |-> test_results.execution_time] >>
     ELSE <<>>)
    \o (IF "memory_usage" \in DOMAIN test_results
        THEN << [name |-> "memory_usage", value |-> test_results.memory_usage] >>
        ELSE <<>>)
    \o (IF "cpu_usage" \in DOMAIN test_results
        THEN << [name |-> "cpu_usage", value |-> test_results.cpu_usage] >>
        ELSE <<>>)
    \o (IF "total_tests" \in DOMAIN test_results
           /\ "passed_tests" \in DOMAIN test_results
        THEN << [name  |-> "test_success_rate",
                 value |-> ExactDiv(test_results.passed_tests * 100,
                                    test_results.total_tests)] >>
        ELSE <<>>)
    \o (IF "response_times" \in DOMAIN test_results
        THEN << [name  |-> "response_time",
                 value |-> ExactDiv(Sum(test_results.response_times),
                                    Len(test_results.response_times))] >>
        ELSE <<>>)
    \o (IF "throughput" \in DOMAIN test_results
        THEN << [name |-> "throughput", value |-> test_results.throughput] >>
        ELSE <<>>)

\* ZeroDivisionError of passed_tests / total_tests, StatisticsError of
\* statistics.mean([])
CollectRaises(test_results) ==
    \/ /\ "total_tests" \in DOMAIN test_results
       /\ "passed_tests" \in DOMAIN test_results
       /\ test_results.total_tests = 0
    \/ /\ "response_times" \in DOMAIN test_results
       /\ test_results.response_times = <<>>

\* Faulty variant of TrimHistory: the oldest HISTORY_KEEP samples are kept.
TrimHistory_KeepOldest(history) ==
    IF Len(history) > HISTORY_CAP
    THEN SubSeq(history, 1, HISTORY_KEEP)
    ELSE history

\* if len(self.metrics_history) > 10000: ... = self.metrics_history[-5000:]
TrimHistory(history) ==
    IF Len(history) > HISTORY_CAP
    THEN SubSeq(history, Len(history) - HISTORY_KEEP + 1, Len(history))
    ELSE history

\* [m for m in self.metrics_history
\*    if m.name == metric_name and m.timestamp >= cutoff_time]
InWindow(history, metric_name, cutoff_time) ==
    SelectSeq(history,
              LAMBDA m : m.name = metric_name /\ m.timestamp >= cutoff_time)

ValuesOf(metrics) == [k \in DOMAIN metrics |-> metrics[k].value]

MinOf(values) == CHOOSE x \in Range(values) : \A y \in Range(values) : x <= y
MaxOf(values) == CHOOSE x \in Range(values) : \A y \in Range(values) : x >= y

RECURSIVE Sorted(_)
\* sorted(values)
Sorted(values) ==
    IF values = <<>> THEN <<>>
    ELSE LET k == CHOOSE i \in DOMAIN values : values[i] = MinOf(values)
         IN <<values[k]>>
            \o Sorted([i \in 1..(Len(values) - 1) |->
                          IF i < k THEN values[i] ELSE values[i + 1]])

\* statistics.median
Median(values) ==
    LET n == Len(values)
        sorted == Sorted(values)
    IN IF n % 2 = 1 THEN Frac(sorted[(n + 1) \div 2], 1)
       ELSE Frac(sorted[n \div 2] + sorted[n \div 2 + 1], 2)

\* _calculate_stability_score: min(100.0, max(0, 100 - cv * 100))
calculate_stability_score(values) ==
    IF Len(values) < 2 THEN [score |-> 100]
    ELSE IF Sum(values) <= 0 THEN [score |-> 100]
    ELSE IF ~FracLess(Variance(values),
                      Frac(Sum(values) * Sum(values), Len(values) * Len(values)))
    THEN [score |-> 0]
    ELSE [hundred_minus_hundred_times |-> Stdev(values), over |-> Mean(values)]

\* Faulty variant of analyze_performance_trends: a window of one sample is
\* analysed too.
analyze_performance_trends_FromOneSample(history, clock, metric_name, time_window_hours) ==
    LET relevant_metrics == InWindow(history, metric_name, clock - time_window_hours)
        values == ValuesOf(relevant_metrics)
    IN IF Len(relevant_metrics) < 1
       THEN Returns([metric_name |-> metric_name,
                     trend       |-> "insufficient_data",
                     message     |-> "not enough data to analyse the trend"])
       ELSE Returns(
            [metric_name       |-> metric_name,
             time_window_hours |-> time_window_hours,
             data_points       |-> Len(values),
             trend_direction   |-> calculate_trend_direction(values),
             statistics        |-> [mean |-> Mean(values), min |-> MinOf(values),
                                    max |-> MaxOf(values)],
             latest_value      |-> values[Len(values)]])

\* analyze_performance_trends: how the call ends, for the history and the
\* clock it reads
analyze_performance_trends(history, clock, metric_name, time_window_hours) ==
    LET cutoff_time == clock - time_window_hours
        relevant_metrics == InWindow(history, metric_name, cutoff_time)
        values == ValuesOf(relevant_metrics)
    IN IF Len(relevant_metrics) < 2
       THEN Returns([metric_name |-> metric_name,
                     trend       |-> "insufficient_data",
                     message     |-> "not enough data to analyse the trend"])
       ELSE IF values[1] = 0
       THEN \* change_rate = (values[-1] - values[0]) / values[0] * 100
            Raises
       ELSE LET trend_direction == calculate_trend_direction(values)
                change_rate == Frac((values[Len(values)] - values[1]) * 100,
                                    values[1])
                anomalies == detect_anomalies(values)
                stability_score == calculate_stability_score(values)
            IN Returns(
                [metric_name         |-> metric_name,
                 time_window_hours   |-> time_window_hours,
                 data_points         |-> Len(values),
                 trend_direction     |-> trend_direction,
                 statistics          |-> [mean    |-> Mean(values),
                                          median  |-> Median(values),
                                          std_dev |-> Stdev(values),
                                          min     |-> MinOf(values),
                                          max     |-> MaxOf(values),
                                          range   |-> MaxOf(values) - MinOf(values)],
                 change_rate_percent |-> change_rate,
                 stability_score     |-> stability_score,
                 anomalies_count     |-> Len(anomalies),
                 anomalies           |-> anomalies,
                 latest_value        |-> values[Len(values)],
                 \* _generate_trend_analysis: a sentence made of these three
                 trend_analysis      |-> [trend |-> trend_direction,
                                          change_rate |-> change_rate,
                                          stability |-> stability_score]])

\* _calculate_slope
calculate_slope(x, y) ==
    LET n      == Len(x)
        sum_x  == Sum(x)
        sum_y  == Sum(y)
        sum_xy == Sum([i \in 1..n |-> x[i] * y[i]])
        sum_x2 == Sum([i \in 1..n |-> x[i] * x[i]])
        denominator == n * sum_x2 - sum_x * sum_x
    IN IF n < 2 THEN Frac(0, 1)
       ELSE IF denominator = 0 THEN Frac(0, 1)
       ELSE Frac(n * sum_xy - sum_x * sum_y, denominator)

\* values[-k:]
LastOf(values, k) ==
    IF Len(values) <= k THEN values
    ELSE SubSeq(values, Len(values) - k + 1, Len(values))

\* _identify_risk_factors
identify_risk_factors(values, metric_name) ==
    IF Len(values) < 5 THEN << "insufficient history" >>
    ELSE LET recent_trend == calculate_trend_direction(LastOf(values, 5))
             current_value == values[Len(values)]
             thresholds == performance_thresholds[metric_name]
             higher_is_worse == metric_name \in {"execution_time", "memory_usage",
                                                 "cpu_usage", "response_time"}
         IN (IF recent_trend = "degrading" THEN << "recent degrading trend" >>
             ELSE IF recent_trend = "volatile" THEN << "large fluctuation" >>
             ELSE <<>>)
            \o (IF metric_name \notin DOMAIN performance_thresholds THEN <<>>
                ELSE IF higher_is_worse
                THEN (IF current_value >= thresholds.critical
                      THEN << "critical threshold reached" >>
                      ELSE IF current_value >= thresholds.warning
                      THEN << "near warning threshold" >>
                      ELSE <<>>)
                ELSE (IF current_value <= thresholds.critical
                      THEN << "critical threshold reached" >>
                      ELSE IF current_value <= thresholds.warning
                      THEN << "near warning threshold" >>
                      ELSE <<>>))
            \o (IF CvAboveThreshold(values)
                THEN << "variability too high" >> ELSE <<>>)

\* _generate_prediction_analysis: the two parts of the sentence
generate_prediction_analysis(slope, variance) ==
    [trend     |-> IF FracLess(slope, Frac(1, 100)) /\ FracLess(Frac(-1, 100), slope)
                   THEN "stays stable"
                   ELSE IF slope.num > 0 THEN "improves" ELSE "declines",
     stability |-> IF FracLess(variance, Frac(1, 1)) THEN "high"
                   ELSE IF FracLess(variance, Frac(25, 1)) THEN "medium"
                   ELSE "low"]

\* a + b * k for fractions a, b and an integer k
FracPlusTimes(a, b, k) == Frac(a.num * b.den + b.num * k * a.den, a.den * b.den)

\* Faulty variant of predict_future_performance: the prediction is made from
\* MIN_PREDICTION_SAMPLES - 1 samples on.
predict_future_performance_OneSampleEarly(history, clock, metric_name, prediction_hours) ==
    LET values == ValuesOf(InWindow(history, metric_name, clock - history_window))
        moving_avg == Mean(LastOf(values, 10))
    IN IF Len(values) < MIN_PREDICTION_SAMPLES - 1
       THEN Returns([metric_name |-> metric_name, current_value |-> 0,
                     predicted_values |-> <<>>,
                     confidence_interval |-> <<0, 0>>,
                     trend_analysis |-> [sentence |-> "not enough data to predict"],
                     risk_factors |-> << "insufficient history" >>])
       ELSE Returns([metric_name |-> metric_name,
                     current_value |-> values[Len(values)],
                     predicted_values |->
                        [hour \in 1..prediction_hours |->
                            <<clock + hour, moving_avg>>],
                     confidence_interval |-> <<moving_avg, moving_avg>>,
                     trend_analysis |-> [sentence |-> "prediction"],
                     risk_factors |-> <<>>])

\* predict_future_performance: how the call ends, for the history and the
\* clock it reads
predict_future_performance(history, clock, metric_name, prediction_hours) ==
    LET cutoff_time == clock - history_window
        historical_metrics == InWindow(history, metric_name, cutoff_time)
        values == ValuesOf(historical_metrics)
    IN IF Len(historical_metrics) < MIN_PREDICTION_SAMPLES
       THEN Returns([metric_name         |-> metric_name,
                     current_value       |-> 0,
                     predicted_values    |-> <<>>,
                     confidence_interval |-> <<0, 0>>,
                     trend_analysis      |-> [sentence |-> "not enough data to predict"],
                     risk_factors        |-> << "insufficient history" >>])
       ELSE LET current_value == values[Len(values)]
                base_time == clock
                recent_values == LastOf(values, 10)
                moving_avg == Mean(recent_values)
                slope == IF Len(values) >= 5
                         THEN calculate_slope(<<0, 1, 2, 3, 4>>, LastOf(values, 5))
                         ELSE Frac(0, 1)
                std_dev == Stdev(values)
            IN Returns(
                [metric_name         |-> metric_name,
                 current_value       |-> current_value,
                 predicted_values    |->
                    [hour \in 1..prediction_hours |->
                        <<base_time + hour, FracPlusTimes(moving_avg, slope, hour)>>],
                 \* moving_avg -/+ 1.96 * std_dev
                 confidence_interval |-> <<[center |-> moving_avg, minus |-> std_dev],
                                           [center |-> moving_avg, plus |-> std_dev]>>,
                 trend_analysis      |->
                    generate_prediction_analysis(slope, Variance(values)),
                 risk_factors        |-> identify_risk_factors(values, metric_name)])

\* _analyze_overall_trend
analyze_overall_trend(history, clock) ==
    LET execution_metrics == InWindow(history, "execution_time", clock - 6)
    IN IF Len(execution_metrics) >= 3
       THEN calculate_trend_direction(ValuesOf(execution_metrics))
       ELSE "stable"

\* What the last call of an analyzer method was and how it ended; before is
\* what the two histories were when it was made.
Ret(op, args, outcome_of_call, before) ==
    [op |-> op, args |-> args, result |-> outcome_of_call, before |-> before]

\* collect_performance_metrics(test_results) for the next test run of the feed
CollectMetrics ==
    /\ feed.next <= feed.calls
    /\ LET test_results == Input(feed.plan, feed.next)
           named == MetricsOf(test_results)
           metrics == [k \in DOMAIN named |->
                          PerformanceMetric(named[k].name, named[k].value, now,
                                            created + k)]
       IN IF CollectRaises(test_results)
          THEN /\ ret' = Ret("collect_performance_metrics", feed.next, Raises,
                             [length |-> Len(metrics_history)])
               /\ UNCHANGED <<metrics_history, created>>
          ELSE /\ metrics_history' = TrimHistory(metrics_history \o metrics)
               /\ created' = created + Len(metrics)
               /\ ret' = Ret("collect_performance_metrics", feed.next,
                             Returns(metrics), [length |-> Len(metrics_history)])
    /\ feed' = [feed EXCEPT !.next = @ + 1]
    /\ UNCHANGED <<analysis_history, now>>
    /\ UNCHANGED <<execVars, fcall, serviceVars>>

\* TICK_HOURS pass before the test run the plan names.
Tick ==
    /\ now = 0
    /\ feed.next = GapBefore(feed.plan)
    /\ now' = now + TICK_HOURS
    /\ UNCHANGED <<metrics_history, analysis_history, created, feed, ret>>
    /\ UNCHANGED <<execVars, fcall, serviceVars>>

\* The two histories as a call finds them.
Histories == [metrics_history |-> metrics_history,
              analysis_history |-> analysis_history]

\* Faulty variant of AnalyzeTrends: the result is also kept in
\* analysis_history.
AnalyzeTrends_KeepsResult(metric_name, time_window_hours) ==
    /\ feed.plan \in AnalysisPlans
    /\ ret' = Ret("analyze_performance_trends",
                  [metric_name |-> metric_name,
                   time_window_hours |-> time_window_hours, clock |-> now],
                  analyze_performance_trends(metrics_history, now, metric_name,
                                             time_window_hours),
                  Histories)
    /\ analysis_history' = Append(analysis_history, [timestamp |-> now])
    /\ UNCHANGED <<metrics_history, now, created, feed>>
    /\ UNCHANGED <<execVars, fcall, serviceVars>>

\* analyze_performance_trends(metric_name, time_window_hours)
AnalyzeTrends(metric_name, time_window_hours) ==
    /\ feed.plan \in AnalysisPlans
    /\ ret' = Ret("analyze_performance_trends",
                  [metric_name |-> metric_name,
                   time_window_hours |-> time_window_hours, clock |-> now],
                  analyze_performance_trends(metrics_history, now, metric_name,
                                             time_window_hours),
                  Histories)
    /\ UNCHANGED <<metrics_history, analysis_history, now, created, feed>>
    /\ UNCHANGED <<execVars, fcall, serviceVars>>

\* predict_future_performance(metric_name, prediction_hours)
PredictFuture(metric_name, prediction_hours) ==
    /\ feed.plan \in AnalysisPlans
    /\ ret' = Ret("predict_future_performance",
                  [metric_name |-> metric_name,
                   prediction_hours |-> prediction_hours, clock |-> now],
                  predict_future_performance(metrics_history, now, metric_name,
                                             prediction_hours),
                  Histories)
    /\ UNCHANGED <<metrics_history, analysis_history, now, created, feed>>
    /\ UNCHANGED <<execVars, fcall, serviceVars>>

\* generate_performance_analysis(): the analysis is appended to
\* analysis_history; of its fields the timestamp and the trend direction are
\* kept.
GenerateAnalysis ==
    /\ feed.plan \in AnalysisPlans
    /\ Len(analysis_history) < MaxAnalyses
    /\ LET analysis == [timestamp |-> now,
                        trend_direction |->
                            analyze_overall_trend(metrics_history, now)]
       IN /\ analysis_history' = Append(analysis_history, analysis)
          /\ ret' = Ret("generate_performance_analysis", None, Returns(analysis),
                        Histories)
    /\ UNCHANGED <<metrics_history, now, created, feed>>
    /\ UNCHANGED <<execVars, fcall, serviceVars>>

\* The state of the executor part while only the analyzer runs.
ExecIdle ==
    /\ fs = {}
    /\ parallel = FALSE
    /\ max_workers = 0
    /\ pc = "idle"
    /\ test_modules = <<>>
    /\ task = <<>>
    /\ outcome = <<>>
    /\ call = <<>>
    /\ collected = <<>>
    /\ results = <<>>
    /\ report = None
    /\ saved_report = None
    /\ returned = "pending"
    /\ exit_code = -1
    /\ fcall = NoCall

\* A new analyzer, and the test runs that will report to it.
AnalyzerInit ==
    /\ ExecIdle
    /\ ServicesIdle
    /\ metrics_history = <<>>
    /\ analysis_history = <<>>
    /\ now = 0
    /\ created = 0
    /\ ret = None
    /\ feed \in {[plan |-> plan, next |-> 1, calls |-> MaxCollects] :
                    plan \in AnalysisPlans}

TimeWindows == {DEFAULT_TIME_WINDOW, TICK_HOURS + DEFAULT_TIME_WINDOW}

AnalyzerNext ==
    \/ CollectMetrics
    \/ Tick
    \/ \E metric_name \in MetricNames : \E time_window_hours \in TimeWindows :
          AnalyzeTrends(metric_name, time_window_hours)
    \/ \E metric_name \in MetricNames : \E prediction_hours \in 0..MaxHorizon :
          PredictFuture(metric_name, prediction_hours)
    \/ GenerateAnalysis

AnalyzerSpec == AnalyzerInit /\ [][AnalyzerNext]_vars

\* number of metrics one test run of a bulk plan adds
MetricsPerRun(plan) == Len(MetricsOf(Input(plan, 1)))

\* The metrics number first .. last that the test runs of a bulk plan create
\* (all runs within the same hour).
CreatedMetrics(plan, first, last) ==
    [i \in 1..(last - first + 1) |->
        LET serial == first + i - 1
            run    == (serial - 1) \div MetricsPerRun(plan) + 1
            named  == MetricsOf(Input(plan, run))[((serial - 1) % MetricsPerRun(plan)) + 1]
        IN PerformanceMetric(named.name, named.value, 0, serial)]

\* the first test run of a bulk plan whose metrics push the history past
\* HISTORY_CAP, and the second one
FirstTrimRun(plan) == HISTORY_CAP \div MetricsPerRun(plan) + 1
SecondTrimRun(plan) ==
    FirstTrimRun(plan) + (HISTORY_CAP - HISTORY_KEEP) \div MetricsPerRun(plan) + 1

\* metrics_history after the given number of test runs of a bulk plan, for
\* fewer runs than SecondTrimRun.
HistoryAfter(plan, runs) ==
    IF runs < FirstTrimRun(plan)
    THEN CreatedMetrics(plan, 1, runs * MetricsPerRun(plan))
    ELSE TrimHistory(CreatedMetrics(plan, 1,
                                    FirstTrimRun(plan) * MetricsPerRun(plan)))
         \o CreatedMetrics(plan, FirstTrimRun(plan) * MetricsPerRun(plan) + 1,
                           runs * MetricsPerRun(plan))

\* The numbers of test runs after which HistorySpec starts to follow the
\* analyzer: none, and up to three runs before the history is cut for the
\* first and for the second time.
PriorRuns(plan) ==
    {0} \cup {FirstTrimRun(plan) - d : d \in 1..3}
        \cup {SecondTrimRun(plan) - d : d \in 1..3}

\* An analyzer to which the test runs of a bulk plan have reported, all
\* within the same hour.
HistoryInit ==
    /\ ExecIdle
    /\ ServicesIdle
    /\ analysis_history = <<>>
    /\ now = 0
    /\ ret = None
    /\ feed \in {[plan |-> plan, next |-> prior + 1, calls |-> prior + BulkCollects] :
                    plan \in BulkPlans, prior \in 0..SecondTrimRun("suite")}
    /\ feed.next - 1 \in PriorRuns(feed.plan)
    /\ metrics_history = HistoryAfter(feed.plan, feed.next - 1)
    /\ created = (feed.next - 1) * MetricsPerRun(feed.plan)

HistoryNext == CollectMetrics

HistorySpec == HistoryInit /\ [][HistoryNext]_vars

\* ------------------------------------------------ the sequential oracle

\* execute_tests_sequential as a function of the descriptors and of what each
\* subprocess does: the records in input order.
execute_tests_sequential(mods, outs) ==
    [i \in DOMAIN mods |-> execute_single_test(mods[i], outs[i]).value]

\* ------------------------------------------------------------ properties

Identity(r) == <<r.module_name, r.test_type, r.test_path>>
Key(r) == <<r.module_name, r.test_type, r.test_path, r.status>>
Identities(rs) == [k \in DOMAIN rs |-> Identity(rs[k])]
Keys(rs) == [k \in DOMAIN rs |-> Key(rs[k])]

\* execute_tests_parallel / execute_tests_sequential has returned its list.
SchedulerReturned == pc \in {"report", "save"} \/ (pc = "done" /\ report # None)

\* C1: whatever the outcomes (pass, fail, timeout, launch error, pool-level
\* exception), the list execute_tests_sequential / execute_tests_parallel
\* returns has exactly as many records as there are descriptors.
C1_ExactlyNRecords ==
    SchedulerReturned => Len(results) = Len(test_modules)

C1_Witness ==
    /\ pc = "report"
    /\ Len(results) >= 2
    /\ \E k \in DOMAIN results : results[k].status # "PASS"
    /\ \E k \in DOMAIN results : results[k].status = "PASS"

\* C2: execute_single_test is total. For every subprocess outcome the call
\* returns a record (no exception reaches the caller) of the descriptor, with
\* status PASS iff exit code 0, FAIL iff exit code non-zero, TIMEOUT iff the
\* timeout expired (duration 300), ERROR iff the launch raised (duration 0),
\* and no other status.
C2_RunnerTotal ==
    \A i \in Indices :
        outcome[i] \in SubprocessOutcomes =>
            /\ call[i].kind = "return"
            /\ LET r == call[i].value
                   o == outcome[i]
               IN /\ Identity(r) = Identity(test_modules[i])
                  /\ r.status \in Statuses
                  /\ r.status = "PASS" <=> (o.kind = "exit" /\ o.returncode = 0)
                  /\ r.status = "FAIL" <=> (o.kind = "exit" /\ o.returncode # 0)
                  /\ r.status = "TIMEOUT" <=> o.kind = "timeout"
                  /\ r.status = "ERROR" <=> o.kind = "launch_error"
                  /\ r.status = "TIMEOUT" => r.duration = 300
                  /\ r.status = "ERROR" => r.duration = 0

C2_Witness ==
    /\ \E i \in Indices : outcome[i] = [kind |-> "timeout"] /\ call[i].kind = "return"
    /\ \E i \in Indices : outcome[i] = [kind |-> "launch_error"]
                          /\ call[i].kind = "return"

\* C3: in parallel mode, when the result of a task raises, the record taken
\* for that task is an ERROR record with the task's module_name, test_type and
\* test_path; every task's result is taken (one record per task taken) and
\* the scheduler returns only when all were taken.
C3_PoolFailureBecomesErrorRecord ==
    parallel =>
        /\ Len(results) = Len(collected)
        /\ \A k \in DOMAIN collected :
              k \in DOMAIN results /\ call[collected[k]].kind = "raise" =>
                 /\ results[k].status = "ERROR"
                 /\ Identity(results[k]) = Identity(test_modules[collected[k]])
        /\ SchedulerReturned => Range(collected) = Indices

C3_Witness ==
    /\ parallel
    /\ pc = "report"
    /\ \E k1, k2 \in DOMAIN collected :
          /\ k1 < k2
          /\ call[collected[k1]].kind = "raise"
          /\ call[collected[k2]].kind = "return"
          /\ results[k1].status = "ERROR"
          /\ results[k2].status = "PASS"

\* C4: when execute_tests_parallel returns, every descriptor has exactly one
\* record (the multiset of record identities is that of the descriptors), and
\* for the same per-descriptor subprocess outcomes the multiset of
\* (module_name, test_type, test_path, status) is that of
\* execute_tests_sequential, for every worker count and interleaving.
C4_ParallelEqualsSequentialAsMultiset ==
    (parallel /\ SchedulerReturned) =>
        /\ SeqToBag(Identities(results)) = SeqToBag(Identities(test_modules))
        /\ (\A i \in Indices : outcome[i] \in SubprocessOutcomes) =>
              SeqToBag(Keys(results))
                  = SeqToBag(Keys(execute_tests_sequential(test_modules, outcome)))

C4_Witness ==
    /\ parallel
    /\ max_workers >= 2
    /\ pc = "report"
    /\ \A i \in Indices : outcome[i] \in SubprocessOutcomes
    /\ Len(collected) >= 2
    /\ collected[1] > collected[2]
    /\ results[1].status # results[2].status

\* C5: in parallel mode never more than max_workers execute_single_test calls
\* are in progress.
C5_AtMostMaxWorkersRunning ==
    parallel => Cardinality(Running) <= max_workers

C5_Witness ==
    /\ parallel
    /\ Cardinality(Running) = max_workers
    /\ Queued # {}
    /\ pc = "collect"

\* C6 as stated: in parallel mode, while any submitted invocation is still
\* queued or running, no record has been taken into the coordinator's list
\* and report generation has not started.
C6_CollectOnlyAfterAllComplete ==
    (parallel /\ Unfinished # {}) =>
        /\ results = <<>>
        /\ pc \in {"submit", "collect"}
        /\ report = None

\* C6 amended: in parallel mode a record is taken only from an invocation
\* that has completed, and while any submitted invocation is still queued or
\* running the scheduler has not returned and report generation has not
\* started.
C6_ReturnOnlyAfterAllComplete ==
    parallel =>
        /\ \A k \in DOMAIN collected : task[collected[k]] = "finished"
        /\ Unfinished # {} => (pc \in {"submit", "collect"} /\ report = None)
        /\ SchedulerReturned => \A i \in Indices : task[i] = "finished"

\* a record is in the coordinator's list while another invocation runs
C6_Witness ==
    /\ parallel
    /\ results # <<>>
    /\ Running # {}

\* C7: execute_tests_sequential preserves input order: the k-th record is the
\* Runner's record of the k-th descriptor, and a descriptor is started only
\* when the records of all earlier descriptors have been produced.
C7_SequentialPreservesOrder ==
    ~parallel =>
        /\ \A k \in DOMAIN results :
              /\ Identity(results[k]) = Identity(test_modules[k])
              /\ results[k] = execute_single_test(test_modules[k], outcome[k]).value
        /\ \A i \in Indices :
              task[i] # "new" => \A j \in 1..(i - 1) :
                                    task[j] = "finished" /\ j \in DOMAIN results
        /\ SchedulerReturned =>
              results = execute_tests_sequential(test_modules, outcome)

C7_Witness ==
    /\ ~parallel
    /\ pc = "report"
    /\ Len(results) >= 2
    /\ results[1].status = "FAIL"
    /\ results[2].status = "TIMEOUT"

\* The report covers every discovered descriptor, once.
CoversAll(rep) ==
    /\ rep.execution_summary.total_tests = Len(test_modules)
    /\ SeqToBag(Identities(rep.detailed_results)) = SeqToBag(Identities(test_modules))

CompleteReportSaved == saved_report # None /\ CoversAll(saved_report)

\* run_all_tests returned False or raised; the process exit code is non-zero.
ReportsFailure == returned \in {"false", "raised"} /\ exit_code # 0

\* C8 as stated: a run ends in exactly one of the two ways, a complete report
\* saved or the run reporting failure.
C8_ExactlyOneEnding ==
    pc = "done" => (CompleteReportSaved <=> ~ReportsFailure)

\* C8 amended: a run ends with a complete report saved or with the run
\* reporting failure, or both (a saved complete report with a record that is
\* not PASS); a saved report always covers every discovered descriptor; the
\* exit code is 0 only when run_all_tests returned True; and unless nothing was
\* discovered or the pool could not be built, every descriptor was executed
\* and the report generated whatever the outcomes.
C8_CompleteReportOrFailure ==
    /\ saved_report # None => CoversAll(saved_report)
    /\ pc = "done" =>
          /\ CompleteReportSaved \/ ReportsFailure
          /\ exit_code = 0 <=> returned = "true"
          /\ returned = "true" => CompleteReportSaved
          /\ (test_modules # <<>> /\ ~(parallel /\ max_workers <= 0)) =>
                /\ \A i \in Indices : task[i] = "finished"
                /\ report # None
                /\ CoversAll(report)

C8_Witness ==
    /\ pc = "done"
    /\ CompleteReportSaved
    /\ ReportsFailure
    /\ saved_report.execution_summary.total_tests >= 2
    /\ saved_report.detailed_results[1].status \in {"FAIL", "TIMEOUT", "ERROR"}
    /\ saved_report.detailed_results[2].status = "PASS"

CountFields == {"total", "passed", "failed", "timeout", "error"}

SummaryCount(rep, c) ==
    CASE c = "total"   -> rep.execution_summary.total_tests
      [] c = "passed"  -> rep.execution_summary.passed_tests
      [] c = "failed"  -> rep.execution_summary.failed_tests
      [] c = "timeout" -> rep.execution_summary.timeout_tests
      [] c = "error"   -> rep.execution_summary.error_tests

\* C9: in every report of generate_comprehensive_report, each of the counts
\* total, passed, failed, timeout and error of the summary equals its sum over
\* module_statistics and its sum over type_statistics, and total_tests is the
\* length of detailed_results.
C9_ReportCountsConsistent ==
    (fcall.src = "executor" /\ fcall.state = "returned") =>
        LET rep == fcall.result
        IN /\ \A c \in CountFields :
                /\ SummaryCount(rep, c)
                     = SumOver([m \in DOMAIN rep.module_statistics |->
                                   rep.module_statistics[m][c]],
                               DOMAIN rep.module_statistics)
                /\ SummaryCount(rep, c)
                     = SumOver([t \in DOMAIN rep.type_statistics |->
                                   rep.type_statistics[t][c]],
                               DOMAIN rep.type_statistics)
           /\ rep.execution_summary.total_tests = Len(rep.detailed_results)

C9_Witness ==
    /\ fcall.src = "executor"
    /\ fcall.state = "returned"
    /\ Cardinality(DOMAIN fcall.result.module_statistics) = 2
    /\ Cardinality(DOMAIN fcall.result.type_statistics) = 2
    /\ fcall.result.execution_summary.timeout_tests = 2
    /\ fcall.result.execution_summary.passed_tests = 1
    /\ fcall.result.execution_summary.error_tests = 1

\* The calls whose result carries a success_rate.
ExecutorSources == {"executor", "executor_outcomes"}
RateSources == ExecutorSources \cup {"execution_result", "workflow"}

RateTotal == IF fcall.src \in ExecutorSources
             THEN fcall.result.execution_summary.total_tests
             ELSE fcall.result.total_tests
RatePassed == IF fcall.src \in ExecutorSources
              THEN fcall.result.execution_summary.passed_tests
              ELSE IF fcall.src = "execution_result"
                   THEN fcall.result.passed_tests
                   ELSE fcall.result.passed
RateValue == IF fcall.src \in ExecutorSources
             THEN fcall.result.execution_summary.success_rate
             ELSE fcall.result.success_rate

ExactRate ==
    /\ RateTotal = 0 => FracEq(RateValue, Frac(0, 1))
    /\ RateTotal >= 1 => FracEq(RateValue, Frac(100 * RatePassed, RateTotal))

\* C10 as stated: in the executor's report, in ExecutionResult.success_rate
\* and in the workflow test report, success_rate is 0 when the total is 0 and
\* exactly 100 * passed / total when the total is at least 1.
C10_ExactRateEverywhere ==
    (fcall.src \in RateSources /\ fcall.state = "returned") => ExactRate

\* C10 amended: that holds for the executor's report and for
\* ExecutionResult.success_rate; the workflow test report gives 0 for a total
\* of 0 and otherwise 100 * passed / total rounded to two decimals (the
\* multiple of 0.01 nearest to it, at most 0.005 away).
C10_ExactRateOrRounded ==
    (fcall.src \in RateSources /\ fcall.state = "returned") =>
        IF fcall.src = "workflow"
        THEN /\ RateValue.den = 100
             /\ RateTotal = 0 => RateValue.num = 0
             /\ RateTotal >= 1 =>
                   LET d == RateValue.num * RateTotal - 10000 * RatePassed
                   IN 2 * d <= RateTotal /\ -2 * d <= RateTotal
        ELSE ExactRate

\* the workflow report's rate differs from 100 * passed / total
C10_Witness ==
    /\ fcall.state = "returned"
    /\ fcall.src = "workflow"
    /\ RateTotal >= 1
    /\ ~FracEq(RateValue, Frac(100 * RatePassed, RateTotal))

\* ---------------------------------------------------------------- C11, C12

PermutationsOf(n) ==
    {p \in [1..n -> 1..n] : \A i \in 1..n : \A j \in 1..n : p[i] = p[j] => i = j}

Permute(s, p) == [k \in DOMAIN s |-> s[p[k]]]

\* C11: the report statistics do not depend on the order of the records: for
\* every record list and every permutation of it, generate_comprehensive_report
\* gives the same summary counts, the same success_rate, the same
\* module_statistics and the same type_statistics.
C11_StatisticsOrderIndependent ==
    (fcall.src = "executor" /\ fcall.state = "returned") =>
        LET recs == RecordsWith(fcall.args)
            rep  == fcall.result
        IN \A p \in PermutationsOf(Len(recs)) :
              LET other == generate_comprehensive_report(Permute(recs, p))
              IN /\ \A c \in CountFields :
                        SummaryCount(other, c) = SummaryCount(rep, c)
                 /\ FracEq(other.execution_summary.success_rate,
                           rep.execution_summary.success_rate)
                 /\ other.module_statistics = rep.module_statistics
                 /\ other.type_statistics = rep.type_statistics

\* A report of four records of two modules and two test types whose statuses
\* all differ has been returned.
C11_Witness ==
    /\ fcall.src = "executor"
    /\ fcall.state = "returned"
    /\ fcall.args = <<"PASS", "FAIL", "TIMEOUT", "ERROR">>
    /\ fcall.result.module_statistics["m1"].passed = 1
    /\ fcall.result.module_statistics["m2"].timeout = 1

NonPass(r) == r.status # "PASS"

\* C12: failed_tests_summary has one entry per record whose status is not
\* PASS and none for a PASS record, in the order of detailed_results; the
\* error of an entry has at most 500 characters: the first 500 characters of
\* the record's stderr, or the fixed placeholder when stderr is empty.
C12_FailedSummaryExcerpts ==
    (fcall.src = "executor_outcomes" /\ fcall.state = "returned") =>
        LET rep     == fcall.result
            nonpass == SelectSeq(rep.detailed_results, NonPass)
            summary == rep.failed_tests_summary
        IN /\ rep.detailed_results = RecordsOf(fcall.args)
           /\ Len(summary) = Len(nonpass)
           /\ \A k \in DOMAIN summary :
                 /\ summary[k].module = nonpass[k].module_name
                 /\ summary[k].test_type = nonpass[k].test_type
                 /\ summary[k].test_file = nonpass[k].test_file
                 /\ summary[k].status = nonpass[k].status
                 /\ summary[k].error.len <= 500
                 /\ IF nonpass[k].stderr.len = 0
                    THEN summary[k].error = Str("No error message", 16)
                    ELSE /\ summary[k].error.text = nonpass[k].stderr.text
                         /\ summary[k].error.len =
                              (IF nonpass[k].stderr.len < 500
                               THEN nonpass[k].stderr.len ELSE 500)

\* A report has been returned for a failure with 501 characters of stderr,
\* then a passing test, then a failure with an empty stderr.
C12_Witness ==
    /\ fcall.src = "executor_outcomes"
    /\ fcall.state = "returned"
    /\ Len(fcall.args) = 3
    /\ fcall.args[1].kind = "exit" /\ fcall.args[1].returncode = 1
    /\ fcall.args[1].stderr.len = 501
    /\ fcall.args[2].kind = "exit" /\ fcall.args[2].returncode = 0
    /\ fcall.args[3].kind = "exit" /\ fcall.args[3].returncode = 1
    /\ fcall.args[3].stderr.len = 0
    /\ Len(fcall.result.failed_tests_summary) = 2
    /\ fcall.result.failed_tests_summary[1].error.len = 500

\* --------------------------------------------------------------------- C13

\* The test files the claim counts: matching files directly inside unit_tests
\* or integration_tests of a non-hidden module directory of a category.
CountedTestFiles(tree) ==
    {e \in tree :
        /\ ~e.is_dir
        /\ \E category \in {mcp_adapter_path, mcp_workflow_path} :
              /\ IsPrefix(category, e.path)
              /\ Len(e.path) = Len(category) + 3
              /\ e.path[Len(category) + 1].prefix # "."
              /\ e.path[Len(category) + 2] \in {Plain("unit_tests"),
                                                 Plain("integration_tests")}
              /\ e.path[Len(e.path)].prefix = "test_"
              /\ e.path[Len(e.path)].ext = ".py"}

\* C13: discover_all_tests returns exactly one descriptor per matching test
\* file found in the unit_tests / integration_tests subdirectory of each
\* non-hidden module directory under each existing category directory, with
\* module_type the category and test_type the kind of the subdirectory;
\* hidden directories and module directories without matching files
\* contribute nothing; a missing category directory contributes nothing and
\* raises no error.
C13_OneDescriptorPerTestFile ==
    (fcall.src = "discover" /\ fcall.state = "returned") =>
        /\ fcall.result.kind = "return"
        /\ LET found == fcall.result.value
               files == CountedTestFiles(fcall.args)
           IN /\ Len(found) = Cardinality(files)
              /\ {found[k].test_file : k \in DOMAIN found} = {e.path : e \in files}
              /\ \A k \in DOMAIN found :
                    LET path == found[k].test_file
                    IN /\ found[k].module_type = path[Len(path) - 3].stem
                       /\ found[k].module_name = path[Len(path) - 2]
                       /\ found[k].test_type =
                            (IF path[Len(path) - 1] = Plain("unit_tests")
                             THEN "unit" ELSE "integration")
                       /\ found[k].test_path = SubSeq(path, 2, Len(path))

\* Discovery has returned for a tree without the workflow category, with a
\* hidden module holding a test file, a non-matching file, and two test
\* files of module m1.
C13_Witness ==
    /\ fcall.src = "discover"
    /\ fcall.state = "returned"
    /\ ~Exists(fcall.args, mcp_workflow_path)
    /\ Exists(fcall.args, mcp_adapter_path \o << Name(".", "cache", "") >>)
    /\ \E e \in fcall.args : e.path[Len(e.path)] = Name("", "helper", ".py")
    /\ Len(fcall.result.value) = 2
    /\ \E k \in 1..2 : fcall.result.value[k].test_type = "integration"

\* ---------------------------------------------------------------- C17, C18

\* sum over the positions of a sequence of numbers
SeqSum(f) == SumOver(f, DOMAIN f)

\* n times the sum of squared deviations from the mean
SpreadTimesN(values) ==
    Len(values) * SeqSum([k \in DOMAIN values |-> values[k] * values[k]])
    - SeqSum(values) * SeqSum(values)

\* stddev / mean > 0.3 for a window of at least two values with a positive
\* mean (stddev with n - 1 in the denominator), and FALSE when the mean is
\* not positive
CvOver30Percent(values) ==
    /\ SeqSum(values) > 0
    /\ 100 * Len(values) * SpreadTimesN(values)
         > 9 * (Len(values) - 1) * SeqSum(values) * SeqSum(values)

\* 10 times the numerator and the denominator of the least-squares slope of
\* the values over their positions 0, 1, 2, ...
SlopeNum10(values) ==
    10 * (Len(values) * SeqSum([k \in DOMAIN values |-> (k - 1) * values[k]])
          - SeqSum([k \in DOMAIN values |-> k - 1]) * SeqSum(values))
SlopeDen(values) ==
    Len(values) * SeqSum([k \in DOMAIN values |-> (k - 1) * (k - 1)])
    - SeqSum([k \in DOMAIN values |-> k - 1]) * SeqSum([k \in DOMAIN values |-> k - 1])

\* the direction the priority rule of the claim gives
PriorityDirection(values) ==
    IF CvOver30Percent(values) THEN "volatile"
    ELSE IF SlopeNum10(values) > SlopeDen(values) THEN "improving"
    ELSE IF SlopeNum10(values) < -SlopeDen(values) THEN "degrading"
    ELSE "stable"

\* C17 as stated: for every window of at least 2 samples the direction is
\* VOLATILE if stddev/mean > 0.3, else IMPROVING if the slope is > 0.1, else
\* DEGRADING if the slope is < -0.1, else STABLE.
C17_PriorityFromTwoSamples ==
    (fcall.src = "trend_direction" /\ fcall.state = "returned"
       /\ Len(fcall.args) >= 2) =>
        fcall.result = PriorityDirection(fcall.args)

\* C17 amended: that rule gives the direction of every window of at least 3
\* samples (stddev/mean counting as 0 when the mean is 0); a window of fewer
\* than 3 samples is always STABLE.
C17_PriorityFromThreeSamples ==
    (fcall.src = "trend_direction" /\ fcall.state = "returned") =>
        IF Len(fcall.args) >= 3
        THEN fcall.result = PriorityDirection(fcall.args)
        ELSE fcall.result = "stable"

\* The direction of a window with stddev/mean > 0.3 and a slope > 0.1 has
\* been returned as volatile.
C17_Witness ==
    /\ fcall.src = "trend_direction"
    /\ fcall.state = "returned"
    /\ fcall.args = <<1, 5, 10>>
    /\ fcall.result = "volatile"

NineTensOneThousand(values) ==
    /\ Len(values) = 10
    /\ Cardinality({k \in DOMAIN values : values[k] = 10}) = 9
    /\ Cardinality({k \in DOMAIN values : values[k] = 1000}) = 1

TenTensOneThousand(values) ==
    /\ Len(values) = 11
    /\ Cardinality({k \in DOMAIN values : values[k] = 10}) = 10
    /\ Cardinality({k \in DOMAIN values : values[k] = 1000}) = 1

FlagsExactlyTheThousandAsHigh(anomalies) ==
    /\ Len(anomalies) = 1
    /\ anomalies[1].value = 1000
    /\ anomalies[1].type = "high"

\* C18 as stated: for a series of nine values of 10 and one value of 1000,
\* anomaly detection (deviation from the mean greater than 3 x stddev) flags
\* exactly one sample, the value 1000, tagged high.
C18_FlagsTheThousandAmongTen ==
    (fcall.src = "detect_anomalies" /\ fcall.state = "returned"
       /\ NineTensOneThousand(fcall.args)) =>
        FlagsExactlyTheThousandAsHigh(fcall.result)

\* C18 amended: for nine values of 10 and one value of 1000 nothing is
\* flagged (the deviation 891 of the value 1000 is below 3 x stddev = 939.2);
\* for ten values of 10 and one value of 1000 exactly the value 1000 is
\* flagged, tagged high.
C18_FlagsTheThousandAmongEleven ==
    (fcall.src = "detect_anomalies" /\ fcall.state = "returned") =>
        /\ NineTensOneThousand(fcall.args) => fcall.result = <<>>
        /\ TenTensOneThousand(fcall.args) =>
              FlagsExactlyTheThousandAsHigh(fcall.result)

\* Anomaly detection has returned for nine values of 10 followed by 1000.
C18_Witness ==
    /\ fcall.src = "detect_anomalies"
    /\ fcall.state = "returned"
    /\ NineTensOneThousand(fcall.args)
    /\ fcall.args[10] = 1000
    /\ fcall.result = <<>>

\* ------------------------------------------------------------ C14 .. C20

CollectReturned ==
    /\ ret # None
    /\ ret.op = "collect_performance_metrics"
    /\ ret.result.kind = "return"

\* C14: metrics_history never holds more than 10,000 samples, all metric
\* names together, whenever a recording operation has returned; when an
\* append pushes the length past 10,000 the history is cut to exactly the
\* 5,000 most recently appended samples, in their original order (otherwise
\* it is the old history followed by the new samples).
C14_HistoryCapped ==
    /\ Len(metrics_history) <= 10000
    /\ CollectReturned =>
          LET pushed == ret.before.length + Len(ret.result.value)
          IN /\ Len(metrics_history) = (IF pushed > 10000 THEN 5000 ELSE pushed)
             /\ \A i \in DOMAIN metrics_history :
                   metrics_history[i].serial = created - Len(metrics_history) + i

\* A call that found 9,996 samples and appended 6 has returned, and the
\* history holds the samples 5,003 .. 10,002.
C14_Witness ==
    /\ CollectReturned
    /\ ret.before.length = 9996
    /\ Len(ret.result.value) = 6
    /\ Len(metrics_history) = 5000
    /\ metrics_history[1].serial = 5003
    /\ metrics_history[5000].serial = 10002

AnalyzeCalled == ret # None /\ ret.op = "analyze_performance_trends"
PredictCalled == ret # None /\ ret.op = "predict_future_performance"

\* The positions of the samples of a metric that are not older than the
\* given number of hours at the given time.
SamplesWithin(history, metric_name, clock, hours) ==
    {i \in DOMAIN history :
        /\ history[i].name = metric_name
        /\ history[i].timestamp >= clock - hours}

\* the samples the last call of analyze_performance_trends had in its window
AnalyzedSamples ==
    SamplesWithin(ret.before.metrics_history, ret.args.metric_name,
                  ret.args.clock, ret.args.time_window_hours)

C16_AnalysisAfterOneSampleHasDirection ==
    (/\ AnalyzeCalled
     /\ ret.args.metric_name = "execution_time"
     /\ ret.args.time_window_hours = DEFAULT_TIME_WINDOW
     /\ feed.next = 2
     /\ ret.args.clock = 0
     /\ Cardinality({i \in DOMAIN ret.before.metrics_history :
                        ret.before.metrics_history[i].name = "execution_time"}) = 1)
    => /\ ret.result.kind = "return"
       /\ {"trend_direction", "statistics"} \subseteq DOMAIN ret.result.value

\* the samples the last call of predict_future_performance had in its
\* lookback window, and their values in order
LookbackSamples ==
    SamplesWithin(ret.before.metrics_history, ret.args.metric_name,
                  ret.args.clock, 168)

RECURSIVE ValuesAt(_, _, _)
\* the values of the samples at the given positions, in order of position
ValuesAt(history, positions, k) ==
    IF k > Len(history) THEN <<>>
    ELSE (IF k \in positions THEN <<history[k].value>> ELSE <<>>)
         \o ValuesAt(history, positions, k + 1)

InsufficientDataPrediction(prediction) ==
    /\ prediction.predicted_values = <<>>
    /\ prediction.trend_analysis = [sentence |-> "not enough data to predict"]
    /\ prediction.risk_factors = << "insufficient history" >>

\* value = moving average of the last 10 values + slope of the last 5 values
\* over the positions 0..4, times hour; the slope is
\* (5 * sum(x*y) - 10 * sum(y)) / 50
IsLinearPrediction(value, values, hour) ==
    LET n      == Len(values)
        last10 == [k \in 1..10 |-> values[n - 10 + k]]
        last5  == [k \in 1..5 |-> values[n - 5 + k]]
        slope50 == 5 * SeqSum([k \in 1..5 |-> (k - 1) * last5[k]])
                   - 10 * SeqSum(last5)
    IN value.num * 500 = value.den * (50 * SeqSum(last10) + 10 * hour * slope50)

\* C19: predict_future_performance returns the insufficient-data prediction
\* exactly when fewer than 10 samples of the metric lie within the lookback
\* window; otherwise it returns exactly horizon_hours predicted points, one
\* per hour 1..horizon_hours, each equal to moving_average + slope * hour,
\* with one confidence interval for all of them.
C19_PredictionFromTenSamples ==
    PredictCalled =>
        /\ ret.result.kind = "return"
        /\ LET prediction == ret.result.value
               values == ValuesAt(ret.before.metrics_history, LookbackSamples, 1)
           IN /\ InsufficientDataPrediction(prediction)
                   <=> Cardinality(LookbackSamples) < 10
              /\ Cardinality(LookbackSamples) >= 10 =>
                    /\ Len(prediction.predicted_values) = ret.args.prediction_hours
                    /\ \A hour \in DOMAIN prediction.predicted_values :
                          /\ prediction.predicted_values[hour][1]
                               = ret.args.clock + hour
                          /\ IsLinearPrediction(prediction.predicted_values[hour][2],
                                                values, hour)
                    /\ Len(prediction.confidence_interval) = 2
                    /\ prediction.confidence_interval[1].center
                         = prediction.confidence_interval[2].center

\* A prediction of two hours has been returned for a metric with eleven
\* rising samples: the second point lies above the first.
C19_Witness ==
    /\ PredictCalled
    /\ Cardinality(LookbackSamples) = 11
    /\ ret.args.prediction_hours = 2
    /\ Len(ret.result.value.predicted_values) = 2
    /\ FracLess(ret.result.value.predicted_values[1][2],
                ret.result.value.predicted_values[2][2])

\* The two histories are what they were when the last call of
\* analyze_performance_trends or predict_future_performance was made.
HistoriesAsBefore ==
    (AnalyzeCalled \/ PredictCalled) =>
        /\ metrics_history = ret.before.metrics_history
        /\ analysis_history = ret.before.analysis_history

\* what a second call with the arguments of the last call returns now
SecondCall ==
    IF ret.op = "analyze_performance_trends"
    THEN analyze_performance_trends(metrics_history, now, ret.args.metric_name,
                                    ret.args.time_window_hours)
    ELSE predict_future_performance(metrics_history, now, ret.args.metric_name,
                                    ret.args.prediction_hours)

\* the numbers of the predicted points
PredictedNumbers(prediction) ==
    [hour \in DOMAIN prediction.predicted_values |->
        prediction.predicted_values[hour][2]]

\* Two results with the same direction, statistics, anomalies and predicted
\* values (or both the same marker, or both an exception).
SameFindings(first, second) ==
    /\ first.kind = second.kind
    /\ first.kind = "return" =>
          /\ DOMAIN first.value = DOMAIN second.value
          /\ "trend" \in DOMAIN first.value => first.value = second.value
          /\ "trend_direction" \in DOMAIN first.value =>
                /\ first.value.trend_direction = second.value.trend_direction
                /\ first.value.statistics = second.value.statistics
                /\ first.value.anomalies = second.value.anomalies
          /\ "predicted_values" \in DOMAIN first.value =>
                PredictedNumbers(first.value) = PredictedNumbers(second.value)

\* the window of a call of the last kind made at the given time
WindowAt(clock) ==
    SamplesWithin(metrics_history, ret.args.metric_name, clock,
                  IF ret.op = "analyze_performance_trends"
                  THEN ret.args.time_window_hours ELSE 168)

\* C20 as stated: analyze_performance_trends and predict_future_performance
\* leave metrics_history and analysis_history unchanged, and two calls with
\* the same history and the same arguments return the same direction,
\* statistics, anomalies and predicted values.
C20_ReadOnlyAndRepeatable ==
    /\ HistoriesAsBefore
    /\ (AnalyzeCalled \/ PredictCalled) => SameFindings(ret.result, SecondCall)

\* C20 amended: both leave the two histories unchanged, and two calls with
\* the same history and the same arguments return the same direction,
\* statistics, anomalies and predicted values if the same samples lie within
\* the time window at the time of each call.
C20_ReadOnlyAndRepeatableInWindow ==
    /\ HistoriesAsBefore
    /\ ((AnalyzeCalled \/ PredictCalled)
          /\ WindowAt(now) = WindowAt(ret.args.clock))
       => SameFindings(ret.result, SecondCall)

\* After a generated analysis and three samples, a trend analysis over a
\* long window has returned a direction; time has passed since, and the
\* window of a second call still holds the same three samples.
C20_Witness ==
    /\ AnalyzeCalled
    /\ analysis_history # <<>>
    /\ now > ret.args.clock
    /\ Cardinality(WindowAt(now)) >= 2
    /\ WindowAt(now) = WindowAt(ret.args.clock)
    /\ ret.result.kind = "return"
    /\ "trend_direction" \in DOMAIN ret.result.value
    /\ SameFindings(ret.result, SecondCall)

\* ======================================================================
\* Part 4: TestManageMCP (test_manage_mcp.py), the report files it and the
\* executor write, and the command line (cli.py).
\* ======================================================================

\* ------------------------------------------------------------------ bounds

\* The host's clock advances by at most this many seconds.
MaxSeconds == 2
\* At most this many invocations of run_all_tests.
MaxRuns == 3

\* ------------------------------------------------- datetime and strftime

\* The model starts to follow the clock at 2025-06-17 23:59:58 local time
\* (the date of the module), so that the clock passes midnight.
START_YEAR == 2025
START_MONTH == 6
START_DAY == 17
START_SECOND_OF_DAY == 86398
SECONDS_PER_DAY == 86400

\* datetime.now() when the clock shows the given second
DateTime(clock) ==
    LET total == START_SECOND_OF_DAY + clock
        sod   == total % SECONDS_PER_DAY
    IN [year   |-> START_YEAR,
        month  |-> START_MONTH,
        day    |-> START_DAY + total \div SECONDS_PER_DAY,
        hour   |-> sod \div 3600,
        minute |-> (sod % 3600) \div 60,
        second |-> sod % 60]

\* code points of the characters a file stamp is made of
ZERO_CHAR == 48
UNDERSCORE_CHAR == 95

\* the zero-padded decimal digits of n, as code points
Digits(n, width) ==
    [i \in 1..width |-> ZERO_CHAR + ((n \div (10 ^ (width - i))) % 10)]

\* dt.strftime('%Y%m%d_%H%M%S'), as the sequence of its code points
strftime(dt) ==
    Digits(dt.year, 4) \o Digits(dt.month, 2) \o Digits(dt.day, 2)
        \o <<UNDERSCORE_CHAR>>
        \o Digits(dt.hour, 2) \o Digits(dt.minute, 2) \o Digits(dt.second, 2)

\* a < b for two Python strings given by their code points
LexLess(a, b) ==
    \/ /\ Len(a) < Len(b)
       /\ \A i \in 1..Len(a) : a[i] = b[i]
    \/ \E i \in 1..Len(a) :
          /\ i <= Len(b)
          /\ a[i] < b[i]
          /\ \A j \in 1..(i - 1) : a[j] = b[j]

\* f"<prefix><stamp>.json" with the stamp of the given second
StampedName(prefix, clock) == Name(prefix, strftime(DateTime(clock)), ".json")

\* a < b for two file names of the same prefix and extension
NameLess(a, b) == a.prefix = b.prefix /\ a.ext = b.ext /\ LexLess(a.stem, b.stem)

\* ---------------------------------------------------------------- files

\* open(path, 'w') followed by a complete write: the file is created or
\* replaced.
WriteFile(dir, name, content, mtime) ==
    [n \in DOMAIN dir \cup {name} |->
        IF n = name THEN [content |-> content, mtime |-> mtime] ELSE dir[n]]

\* directory.glob(f"{prefix}*.json")
GlobPrefix(dir, prefix) == {n \in DOMAIN dir : n.prefix = prefix /\ n.ext = ".json"}

\* max(files, key=lambda x: x.stat().st_mtime)
Latest(dir, files) == CHOOSE f \in files : \A g \in files : dir[g].mtime <= dir[f].mtime

RaisesError(exc) == [kind |-> "raise", exc |-> exc]

\* ------------------------------------------------- MCPTestExecutor, in short

\* What one invocation of run_all_tests does (Part 1 follows it step by
\* step): it discovers no test; all tests pass; some test does not pass;
\* writing the report fails; the user interrupts it.
RunOutcomes == {"no_tests", "all_passed", "some_failed", "save_raised", "interrupted"}

\* save_report(report) at the given second, by invocation number run
save_report(dir, clock, run, all_passed) ==
    LET report_path == StampedName("mcp_comprehensive_test_report_", clock)
    IN [dir  |-> WriteFile(dir, report_path, [run |-> run, all_passed |-> all_passed], run),
        path |-> report_path]

\* run_all_tests: the test directory afterwards, the returned value or the
\* exception, and the report file it saved
run_all_tests(dir, clock, run, out) ==
    CASE out = "no_tests" ->
            [dir |-> dir, result |-> Returns(FALSE), saved |-> None]
      [] out = "all_passed" ->
            [dir |-> save_report(dir, clock, run, TRUE).dir, result |-> Returns(TRUE),
             saved |-> save_report(dir, clock, run, TRUE).path]
      [] out = "some_failed" ->
            [dir |-> save_report(dir, clock, run, FALSE).dir, result |-> Returns(FALSE),
             saved |-> save_report(dir, clock, run, FALSE).path]
      [] out = "save_raised" ->
            [dir |-> dir, result |-> RaisesError("OSError"), saved |-> None]
      [] out = "interrupted" ->
            [dir |-> dir, result |-> RaisesError("KeyboardInterrupt"), saved |-> None]

\* ------------------------------------------------------------ TestManageMCP

\* The files of the host that the manager reads and writes.
Disk(test, reports) == [test |-> test, reports |-> reports]

\* What the generator and the fixer do when called: they return their
\* results; they raise an exception; the user interrupts them.
ComponentOutcomes == {"ok", "raised", "interrupted"}

\* What a manager operation hands back: the files afterwards, its result (a
\* returned dict or a propagating exception) and the report saved by the
\* executor, None when it saved none.
Done(disk, result, saved_by_executor) ==
    [disk |-> disk, result |-> result, saved |-> saved_by_executor]

\* generate_test_frameworks and fix_test_frameworks: both save their results
\* under reports_path and catch every Exception.
component_report(disk, clock, prefix, out) ==
    CASE out = "ok" ->
            Done(Disk(disk.test,
                      WriteFile(disk.reports, StampedName(prefix, clock),
                                [results |-> prefix], 0)),
                 Returns([status |-> "success", results |-> prefix,
                          report_path |-> StampedName(prefix, clock)]),
                 None)
      [] out = "raised" ->
            Done(disk, Returns([status |-> "error", error |-> "Exception"]), None)
      [] out = "interrupted" ->
            Done(disk, RaisesError("KeyboardInterrupt"), None)

generate_test_frameworks(disk, clock, out) ==
    component_report(disk, clock, "generation_report_", out)

fix_test_frameworks(disk, clock, out) ==
    component_report(disk, clock, "fix_report_", out)

\* execute_all_tests: invocation number run of run_all_tests, then the copy
\* of the most recently modified report of the test directory.
execute_all_tests(disk, clock, run, out) ==
    LET ran          == run_all_tests(disk.test, clock, run, out)
        report_files == GlobPrefix(ran.dir, "mcp_comprehensive_test_report_")
        latest_report == Latest(ran.dir, report_files)
        target_path  == StampedName("execution_report_", clock)
        success      == ran.result.value
    IN IF ran.result.kind = "raise"
       THEN IF ran.result.exc = "KeyboardInterrupt"
            THEN Done(disk, ran.result, None)
            ELSE Done(disk, Returns([status |-> "error", error |-> ran.result.exc]),
                      None)
       ELSE IF report_files # {}
            THEN Done(Disk(ran.dir,
                           WriteFile(disk.reports, target_path,
                                     ran.dir[latest_report].content, 0)),
                      Returns([status |-> IF success THEN "success"
                                                     ELSE "partial_failure",
                               all_tests_passed |-> success,
                               report_path |-> target_path]),
                      ran.saved)
            ELSE Done(Disk(ran.dir, disk.reports),
                      Returns([status |-> "error", error |-> "no report found"]),
                      ran.saved)

Step(step, result) == [step |-> step, result |-> result]

Succeeded(steps) == SelectSeq(steps, LAMBDA s : s.result.status = "success")

\* results["summary"] of run_full_test_cycle
cycle_summary(steps) ==
    [total_steps      |-> Len(steps),
     successful_steps |-> Len(Succeeded(steps)),
     failed_steps     |-> Len(steps) - Len(Succeeded(steps))]

\* results["overall_status"]: "success" if all steps succeeded
cycle_overall_status(steps) ==
    IF \A i \in DOMAIN steps : steps[i].result.status = "success"
    THEN "success" ELSE "partial_failure"

\* run_full_test_cycle after its last step: the summary, the cycle report
\* and the return. cycle_saved tells whether the cycle report could be
\* written.
CycleEnd(execution, steps, clock, cycle_saved) ==
    IF cycle_saved
    THEN Done(Disk(execution.disk.test,
                   WriteFile(execution.disk.reports,
                             StampedName("full_cycle_report_", clock),
                             [steps |-> steps,
                              overall_status |-> cycle_overall_status(steps),
                              summary |-> cycle_summary(steps)], 0)),
              Returns([steps |-> steps,
                       overall_status |-> cycle_overall_status(steps),
                       summary |-> cycle_summary(steps),
                       cycle_report_path |-> StampedName("full_cycle_report_", clock)]),
              execution.saved)
    ELSE Done(execution.disk,
              Returns([steps |-> steps, overall_status |-> "error",
                       summary |-> cycle_summary(steps), error |-> "OSError"]),
              execution.saved)

\* run_full_test_cycle from the result of execute_all_tests on
CycleExecuted(fix, steps, execution, clock, cycle_saved) ==
    IF execution.result.kind = "raise"
    THEN Done(fix.disk, execution.result, None)
    ELSE CycleEnd(execution,
                  Append(steps, Step("execution", execution.result.value)),
                  clock, cycle_saved)

\* run_full_test_cycle from the result of the fix step on (fix_first tells
\* whether there was one)
CycleFixed(generation, steps, fix_first, fix, clock, run, exec_out, cycle_saved) ==
    IF fix.result.kind = "raise"
    THEN Done(generation.disk, fix.result, None)
    ELSE CycleExecuted(fix,
                       IF fix_first
                       THEN Append(steps, Step("fix", fix.result.value))
                       ELSE steps,
                       execute_all_tests(fix.disk, clock, run, exec_out),
                       clock, cycle_saved)

\* run_full_test_cycle from the result of generate_test_frameworks on: a
\* generation that did not succeed ends the cycle with its step alone
CycleGenerated(disk, generation, clock, run, fix_first, fix_out, exec_out, cycle_saved) ==
    IF generation.result.kind = "raise"
    THEN Done(disk, generation.result, None)
    ELSE IF generation.result.value.status # "success"
    THEN Done(generation.disk,
              Returns([steps |-> <<Step("generation", generation.result.value)>>]),
              None)
    ELSE CycleFixed(generation,
                    <<Step("generation", generation.result.value)>>,
                    fix_first,
                    IF fix_first
                    THEN fix_test_frameworks(generation.disk, clock, fix_out)
                    ELSE Done(generation.disk, Returns(None), None),
                    clock, run, exec_out, cycle_saved)

\* Faulty variant of run_full_test_cycle: a failed generation does not end
\* the cycle.
run_full_test_cycle_PastFailedGeneration(disk, clock, run, fix_first, gen_out, fix_out, exec_out, cycle_saved) ==
    LET generation == generate_test_frameworks(disk, clock, gen_out)
    IN IF generation.result.kind = "raise"
       THEN Done(disk, generation.result, None)
       ELSE CycleFixed(generation,
                       <<Step("generation", generation.result.value)>>,
                       fix_first,
                       IF fix_first
                       THEN fix_test_frameworks(generation.disk, clock, fix_out)
                       ELSE Done(generation.disk, Returns(None), None),
                       clock, run, exec_out, cycle_saved)

\* TestManageMCP.run_full_test_cycle
run_full_test_cycle(disk, clock, run, fix_first, gen_out, fix_out, exec_out, cycle_saved) ==
    CycleGenerated(disk, generate_test_frameworks(disk, clock, gen_out), clock,
                   run, fix_first, fix_out, exec_out, cycle_saved)

\* ------------------------------------------------------------------- cli.py

KeyError == RaisesError("KeyError")

\* TestManageMCPCLI.generate_frameworks and fix_frameworks, given what the
\* manager handed back
cli_component(result) ==
    IF result.kind = "raise" THEN result
    ELSE IF result.value.status = "success" THEN Returns(0) ELSE Returns(1)

\* TestManageMCPCLI.execute_tests
cli_execute_tests(result) ==
    IF result.kind = "raise" THEN result
    ELSE IF result.value.status = "success"
         THEN Returns(IF result.value.all_tests_passed THEN 0 ELSE 1)
         ELSE IF "error" \in DOMAIN result.value THEN Returns(1) ELSE KeyError

\* TestManageMCPCLI.run_full_cycle
cli_run_full_cycle(result) ==
    IF result.kind = "raise" THEN result
    ELSE IF "overall_status" \notin DOMAIN result.value THEN KeyError
    ELSE IF "summary" \notin DOMAIN result.value THEN KeyError
    ELSE Returns(IF result.value.overall_status = "success" THEN 0 ELSE 1)

\* main(): the exit code for what the command's method did
EXIT_INTERRUPTED == 130

\* Faulty variant of main: an interrupt is reported like any other failure.
main_InterruptIsFailure(command_result) ==
    IF command_result.kind = "return" THEN command_result.value ELSE 1

main(command_result) ==
    IF command_result.kind = "return" THEN command_result.value
    ELSE IF command_result.exc = "KeyboardInterrupt" THEN EXIT_INTERRUPTED
    ELSE 1

\* ------------------------------------------------------------------ actions

\* What a call left behind in mcall: the operation, its arguments, what the
\* executor was made to do, the number of the run_all_tests invocation it
\* made (0 when it made none), its result and, for the command line, the
\* exit code of the process.
ManageCall(op, args, executor_out, run, result, code) ==
    [op |-> op, args |-> args, executor |-> executor_out, run |-> run,
     result |-> result, exit_code |-> code]

\* the files and the log of save_report calls after a manager operation
Settle(done, run) ==
    /\ test_dir' = done.disk.test
    /\ reports_path' = done.disk.reports
    /\ saved' = IF done.saved = None THEN saved
                ELSE Append(saved, [name |-> done.saved, run |-> run])

\* The host's clock reaches the next second.
ClockTick ==
    /\ wall < MaxSeconds
    /\ wall' = wall + 1
    /\ UNCHANGED <<test_dir, reports_path, invocations, saved, mcall>>
    /\ UNCHANGED <<execVars, fcall, analyzerVars, busVars, strategyVars, workflowVars, engineVars>>

\* The executor is run on its own (test_executor.py's main).
RunExecutor(out) ==
    /\ invocations < MaxRuns
    /\ invocations' = invocations + 1
    /\ LET ran == run_all_tests(test_dir, wall, invocations + 1, out)
       IN /\ Settle(Done(Disk(ran.dir, reports_path), ran.result, ran.saved),
                    invocations + 1)
          /\ mcall' = ManageCall("run_all_tests", None, out, invocations + 1,
                                 ran.result, None)
    /\ UNCHANGED wall
    /\ UNCHANGED <<execVars, fcall, analyzerVars, busVars, strategyVars, workflowVars, engineVars>>

\* await manager.execute_all_tests(...)
ExecuteAllTests(out) ==
    /\ invocations < MaxRuns
    /\ invocations' = invocations + 1
    /\ LET done == execute_all_tests(Disk(test_dir, reports_path), wall,
                                     invocations + 1, out)
       IN /\ Settle(done, invocations + 1)
          /\ mcall' = ManageCall("execute_all_tests", None, out, invocations + 1,
                                 done.result, None)
    /\ UNCHANGED wall
    /\ UNCHANGED <<execVars, fcall, analyzerVars, busVars, strategyVars, workflowVars, engineVars>>

\* A host on which nothing has run yet.
ManageInit ==
    /\ ExecIdle
    /\ AnalyzerIdle
    /\ ServicesIdle

ManageNext ==
    \/ ClockTick
    \/ \E out \in RunOutcomes : RunExecutor(out)
    \/ \E out \in RunOutcomes : ExecuteAllTests(out)

ManageSpec == ManageInit /\ [][ManageNext]_vars

\* ------------------------------------------------------ one CLI process

\* The command line of one process and what its collaborators will do.
Argv(command, args, executor_out) ==
    ManageCall("argv", [command |-> command] @@ args, executor_out, 0, None, None)

CliCalls ==
    {Argv(command, [component |-> out], None) :
        command \in {"generate", "fix"}, out \in ComponentOutcomes}
    \cup {Argv("execute", <<>>, out) : out \in RunOutcomes}
    \cup {Argv("cycle", [no_fix |-> no_fix, generation |-> gen_out, fix |-> fix_out,
                         cycle_saved |-> cycle_saved], exec_out) :
             no_fix \in BOOLEAN, gen_out \in ComponentOutcomes,
             fix_out \in ComponentOutcomes, exec_out \in RunOutcomes,
             cycle_saved \in BOOLEAN}

\* python cli.py generate | fix
CliComponent ==
    /\ mcall.op = "argv"
    /\ mcall.args.command \in {"generate", "fix"}
    /\ LET done == IF mcall.args.command = "generate"
                   THEN generate_test_frameworks(Disk(test_dir, reports_path), wall,
                                                 mcall.args.component)
                   ELSE fix_test_frameworks(Disk(test_dir, reports_path), wall,
                                            mcall.args.component)
       IN /\ Settle(done, 0)
          /\ mcall' = ManageCall("cli", mcall.args, None, 0, done.result,
                                 main(cli_component(done.result)))
    /\ UNCHANGED <<wall, invocations>>
    /\ UNCHANGED <<execVars, fcall, analyzerVars, busVars, strategyVars, workflowVars, engineVars>>

\* python cli.py execute
CliExecute ==
    /\ mcall.op = "argv"
    /\ mcall.args.command = "execute"
    /\ invocations' = invocations + 1
    /\ LET done == execute_all_tests(Disk(test_dir, reports_path), wall,
                                     invocations + 1, mcall.executor)
       IN /\ Settle(done, invocations + 1)
          /\ mcall' = ManageCall("cli", mcall.args, mcall.executor,
                                 invocations + 1, done.result,
                                 main(cli_execute_tests(done.result)))
    /\ UNCHANGED wall
    /\ UNCHANGED <<execVars, fcall, analyzerVars, busVars, strategyVars, workflowVars, engineVars>>

\* python cli.py cycle [--no-fix]
CliCycle ==
    /\ mcall.op = "argv"
    /\ mcall.args.command = "cycle"
    /\ LET reaches_execution ==
               /\ mcall.args.generation = "ok"
               /\ ~mcall.args.no_fix => mcall.args.fix # "interrupted"
           run  == IF reaches_execution THEN invocations + 1 ELSE 0
           done == run_full_test_cycle(Disk(test_dir, reports_path), wall,
                                       invocations + 1, ~mcall.args.no_fix,
                                       mcall.args.generation, mcall.args.fix,
                                       mcall.executor, mcall.args.cycle_saved)
       IN /\ invocations' = IF reaches_execution THEN invocations + 1
                                                 ELSE invocations
          /\ Settle(done, run)
          /\ mcall' = ManageCall("cli", mcall.args, mcall.executor, run,
                                 done.result, main(cli_run_full_cycle(done.result)))
    /\ UNCHANGED wall
    /\ UNCHANGED <<execVars, fcall, analyzerVars, busVars, strategyVars, workflowVars, engineVars>>

\* A host on which the executor has run no test yet, or has run once and
\* left a report behind, and one command line about to be run there.
CliInit ==
    /\ ExecIdle
    /\ AnalyzerIdle
    /\ BusIdle
    /\ StrategyIdle
    /\ WorkflowIdle
    /\ EngineIdle
    /\ wall \in 0..1
    /\ reports_path = <<>>
    /\ \/ /\ invocations = 0
          /\ test_dir = <<>>
          /\ saved = <<>>
       \/ /\ invocations = 1
          /\ test_dir = run_all_tests(<<>>, 0, 1, "some_failed").dir
          /\ saved = <<[name |-> run_all_tests(<<>>, 0, 1, "some_failed").saved,
                        run |-> 1]>>
    /\ mcall \in CliCalls

CliNext ==
    \/ CliComponent
    \/ CliExecute
    \/ CliCycle

CliSpec == CliInit /\ [][CliNext]_vars

\* ------------------------------------------------- properties of Part 4

\* C21 (as stated): of any two reports saved one after the other by
\* save_report, the later one's file name is strictly greater, and every
\* saved report is still in the test directory as it was saved.
C21_LaterReportNameGreater ==
    /\ \A i \in DOMAIN saved : \A j \in DOMAIN saved :
          i < j => NameLess(saved[i].name, saved[j].name)
    /\ \A i \in DOMAIN saved :
          /\ saved[i].name \in DOMAIN test_dir
          /\ test_dir[saved[i].name].content.run = saved[i].run

\* the last call was execute_all_tests and it returned a dict
ExecuteAllTestsReturned ==
    /\ mcall.op = "execute_all_tests"
    /\ mcall.result.kind = "return"

\* C29 (as stated): the report execute_all_tests copies and returns as
\* report_path is the one its own run_all_tests call wrote, and when that
\* call wrote no report the returned status is 'error'.
C29_CopiedReportIsOfThisInvocation ==
    ExecuteAllTestsReturned =>
        /\ "report_path" \in DOMAIN mcall.result.value =>
              reports_path[mcall.result.value.report_path].content.run = mcall.run
        /\ mcall.executor = "no_tests" => mcall.result.value.status = "error"

\* the command line process of CliSpec has ended
CliEnded == mcall.op = "cli"

\* the user interrupted the command while one of its steps was running
CliInterrupted ==
    CASE mcall.args.command \in {"generate", "fix"} ->
            mcall.args.component = "interrupted"
      [] mcall.args.command = "execute" -> mcall.executor = "interrupted"
      [] mcall.args.command = "cycle" ->
            \/ mcall.args.generation = "interrupted"
            \/ /\ mcall.args.generation = "ok"
               /\ ~mcall.args.no_fix
               /\ mcall.args.fix = "interrupted"
            \/ /\ mcall.args.generation = "ok"
               /\ mcall.args.no_fix \/ mcall.args.fix # "interrupted"
               /\ mcall.executor = "interrupted"

\* the command did all it was asked to do
CliFullySucceeded ==
    CASE mcall.args.command \in {"generate", "fix"} -> mcall.args.component = "ok"
      [] mcall.args.command = "execute" -> mcall.executor = "all_passed"
      [] mcall.args.command = "cycle" ->
            /\ mcall.args.generation = "ok"
            /\ mcall.args.no_fix \/ mcall.args.fix = "ok"
            /\ mcall.executor = "all_passed"
            /\ mcall.args.cycle_saved

\* C22: the exit code is 0 exactly when the command fully succeeded, 130
\* when the user interrupted it, and 1 on every other failure, exceptions
\* included.
C22_ExitCodes ==
    CliEnded =>
        mcall.exit_code = IF CliInterrupted THEN EXIT_INTERRUPTED
                          ELSE IF CliFullySucceeded THEN 0 ELSE 1

\* execute finds only the report of an earlier run: the manager answers
\* 'partial_failure', the command line fails on the missing 'error' key and
\* the process exits with 1.
C22_Witness ==
    /\ CliEnded
    /\ mcall.args.command = "execute"
    /\ mcall.result.kind = "return"
    /\ mcall.result.value.status = "partial_failure"
    /\ cli_execute_tests(mcall.result) = KeyError
    /\ mcall.exit_code = 1

\* the cycle command has ended and run_full_test_cycle returned its results
CycleReturned ==
    /\ CliEnded
    /\ mcall.args.command = "cycle"
    /\ mcall.result.kind = "return"

StepNames(steps) == [i \in DOMAIN steps |-> steps[i].step]

\* C27: the steps are generation, fix (only with fix_first), execution, in
\* that order; a generation that is not 'success' ends the cycle; a failed
\* fix does not prevent the execution; overall_status is 'success' only if
\* every step is.
C27_CycleSteps ==
    CycleReturned =>
        LET cycle == mcall.result.value
            names   == StepNames(cycle.steps)
        IN /\ names \in {<<"generation">>, <<"generation", "execution">>,
                         <<"generation", "fix", "execution">>}
           /\ Len(names) = 3 <=> (~mcall.args.no_fix /\ Len(names) > 1)
           /\ Len(names) = 1 <=> cycle.steps[1].result.status # "success"
           /\ Len(names) = 1 => mcall.run = 0
           /\ "overall_status" \in DOMAIN cycle /\ cycle.overall_status = "success"
                 => \A i \in DOMAIN cycle.steps :
                       cycle.steps[i].result.status = "success"

\* a cycle whose fix step failed and whose execution step ran nevertheless
C27_Witness ==
    /\ CycleReturned
    /\ StepNames(mcall.result.value.steps) = <<"generation", "fix", "execution">>
    /\ mcall.result.value.steps[2].result.status = "error"
    /\ mcall.result.value.steps[3].result.status = "success"
    /\ mcall.result.value.overall_status = "partial_failure"

\* ======================================================================
\* Part 5: the message bus (communication.py) and its users: TestManagerMCP
\* (workflow/test_manager_mcp.py) and TestExecutionEngine
\* (test_execution_engine.py).
\* ======================================================================

\* ------------------------------------------------------------ MessageBus

\* self._max_history_size
MAX_HISTORY_SIZE == 1000

\* Event(type=..., source=...); the serial stands for the fresh uuid4 id.
Event(serial, type, source) == [id |-> serial, type |-> type, source |-> source]

\* The callbacks a component can subscribe: one that records the event, one
\* that raises an Exception, and one that unsubscribes itself when it is
\* called for the first time.
Callbacks == {"recorder", "failing", "oneshot"}

\* list.remove(x): the list without the first occurrence of x
RemoveFirst(list, x) ==
    LET first == CHOOSE i \in DOMAIN list :
                     list[i] = x /\ \A j \in 1..(i - 1) : list[j] # x
    IN [k \in 1..(Len(list) - 1) |-> IF k < first THEN list[k] ELSE list[k + 1]]

Has(list, x) == \E i \in DOMAIN list : list[i] = x

\* subscribe_to_event(event_type, callback) on the dict of subscriber lists
subscribe_to_event(subs, event_type, callback) ==
    [t \in DOMAIN subs \cup {event_type} |->
        IF t = event_type
        THEN Append(IF t \in DOMAIN subs THEN subs[t] ELSE <<>>, callback)
        ELSE subs[t]]

\* unsubscribe_from_event(event_type, callback): the dict afterwards and the
\* returned value (False when list.remove raises ValueError)
unsubscribe_from_event(subs, event_type, callback) ==
    IF event_type \notin DOMAIN subs THEN [subscribers |-> subs, result |-> TRUE]
    ELSE IF ~Has(subs[event_type], callback)
    THEN [subscribers |-> subs, result |-> FALSE]
    ELSE [subscribers |-> [subs EXCEPT ![event_type] = RemoveFirst(@, callback)],
          result |-> TRUE]

\* what running a callback for an event of the given type does to the
\* subscriber lists
CallbackEffect(subs, event_type, callback) ==
    IF callback = "oneshot"
    THEN unsubscribe_from_event(subs, event_type, callback).subscribers
    ELSE subs

RECURSIVE NotifyFrom(_, _, _, _)
\* "for subscriber in subscribers: await subscriber(event)", from position i
\* of the list object of the event's type on: the subscriber lists
\* afterwards and the callbacks that were called, in order.
NotifyFrom(subs, event_type, i, called) ==
    IF event_type \notin DOMAIN subs \/ i > Len(subs[event_type])
    THEN [subscribers |-> subs, called |-> called]
    ELSE NotifyFrom(CallbackEffect(subs, event_type, subs[event_type][i]),
                    event_type, i + 1, Append(called, subs[event_type][i]))

\* self._event_history.append(event) and the pop(0) beyond the maximum
AppendEvent(history, event) ==
    LET longer == Append(history, event)
    IN IF Len(longer) > MAX_HISTORY_SIZE THEN Tail(longer) ELSE longer

\* The bus as the value its methods work on.
Bus(subs, history, count) ==
    [subscribers |-> subs, event_history |-> history, published |-> count]

TheBus == Bus(subscribers, event_history, published)

\* CommunicationProtocol.publish_event(event_type, ...) of a component and
\* MessageBus.publish_event: the bus afterwards, the callbacks called and
\* the returned value.
publish_event(bus, source, event_type) ==
    LET event    == Event(bus.published + 1, event_type, source)
        notified == NotifyFrom(bus.subscribers, event_type, 1, <<>>)
    IN [bus    |-> Bus(notified.subscribers, AppendEvent(bus.event_history, event),
                       bus.published + 1),
        event  |-> event,
        called |-> notified.called,
        result |-> TRUE]

\* What a bus method left behind in bcall: the method, its arguments, the
\* subscriber lists when it was called, the callbacks it called, its result.
BusCall(op, args, before, called, result) ==
    [op |-> op, args |-> args, before |-> before, called |-> called,
     result |-> result]

\* the bus variables after a component has published one event
Publishes(source, event_type) ==
    LET pub == publish_event(TheBus, source, event_type)
    IN /\ subscribers' = pub.bus.subscribers
       /\ event_history' = pub.bus.event_history
       /\ published' = pub.bus.published
       /\ bcall' = BusCall("publish_event", [type |-> event_type, event |-> pub.event],
                           subscribers, pub.called, pub.result)
       /\ UNCHANGED message_handlers

RECURSIVE PublishAll(_, _, _)
\* one publish_event after another: what each of them gave
PublishAll(bus, source, event_types) ==
    IF event_types = <<>> THEN <<>>
    ELSE LET pub == publish_event(bus, source, Head(event_types))
         IN <<pub>> \o PublishAll(pub.bus, source, Tail(event_types))

\* the bus variables after a component has published the events one after
\* another without being suspended in between
PublishesAll(source, event_types) ==
    LET pubs   == PublishAll(TheBus, source, event_types)
        last   == pubs[Len(pubs)]
        before == IF Len(pubs) = 1 THEN subscribers
                  ELSE pubs[Len(pubs) - 1].bus.subscribers
    IN /\ subscribers' = last.bus.subscribers
       /\ event_history' = last.bus.event_history
       /\ published' = last.bus.published
       /\ bcall' = BusCall("publish_event",
                           [type |-> last.event.type, event |-> last.event],
                           before, last.called, last.result)
       /\ UNCHANGED message_handlers

\* ----------------------------------------------------------- TestManagerMCP

\* At most this many create_test_strategy coroutines run at once.
MaxCreators == 2

\* self.strategy_templates
strategy_templates ==
    [unit_testing |->
        [name |-> "unit strategy", test_types |-> <<"unit">>,
         execution_mode |-> "parallel", max_workers |-> 4, timeout |-> 1800,
         optimization_enabled |-> TRUE],
     integration_testing |->
        [name |-> "integration strategy", test_types |-> <<"integration">>,
         execution_mode |-> "sequential", max_workers |-> 2, timeout |-> 3600,
         optimization_enabled |-> TRUE],
     comprehensive |->
        [name |-> "comprehensive strategy",
         test_types |-> <<"unit", "integration", "e2e">>,
         execution_mode |-> "adaptive", max_workers |-> 6, timeout |-> 7200,
         optimization_enabled |-> TRUE],
     performance |->
        [name |-> "performance strategy", test_types |-> <<"performance">>,
         execution_mode |-> "sequential", max_workers |-> 1, timeout |-> 10800,
         optimization_enabled |-> FALSE]]

\* class ExecutionMode(Enum)
ExecutionModes == {"sequential", "parallel", "adaptive"}

\* The requirements dictionaries the callers pass: the one of the
\* concurrency test, one with only an unrecognised field, an empty one, one
\* that names no known template, and one whose execution mode is no
\* ExecutionMode.
RequirementSet ==
    {[name |-> "concurrent strategy", template |-> "unit_testing",
      target_modules |-> <<"module_0">>],
     [invalid_field |-> "invalid_value"],
     <<>>,
     [template |-> "nightly"],
     [execution_mode |-> "bogus"]}

\* the keys create_test_strategy reads from the requirements
RecognisedFields ==
    {"template", "name", "description", "target_modules", "test_types",
     "execution_mode", "max_workers", "timeout", "retry_count",
     "optimization_enabled"}

\* requirements.get(key, default)
Get(dict, key, default) == IF key \in DOMAIN dict THEN dict[key] ELSE default

\* the template create_test_strategy works from
TemplateName(requirements) ==
    IF Get(requirements, "template", "comprehensive") \in DOMAIN strategy_templates
    THEN Get(requirements, "template", "comprehensive")
    ELSE "comprehensive"

\* f"strategy_{datetime.now().strftime('%Y%m%d_%H%M%S')}"
StrategyId(clock) == Name("strategy_", strftime(DateTime(clock)), "")

\* The TestStrategy object create_test_strategy builds at the given second,
\* or the ValueError of ExecutionMode(...).
BuildStrategy(requirements, clock) ==
    LET template == strategy_templates[TemplateName(requirements)]
        mode     == Get(requirements, "execution_mode", template.execution_mode)
    IN IF mode \notin ExecutionModes THEN RaisesError("ValueError")
       ELSE Returns([id |-> StrategyId(clock),
                     name |-> Get(requirements, "name", template.name),
                     target_modules |-> Get(requirements, "target_modules", <<>>),
                     test_types |-> Get(requirements, "test_types", template.test_types),
                     execution_mode |-> mode,
                     max_workers |-> Get(requirements, "max_workers", template.max_workers),
                     timeout |-> Get(requirements, "timeout", template.timeout),
                     retry_count |-> Get(requirements, "retry_count", 3),
                     optimization_enabled |->
                        Get(requirements, "optimization_enabled",
                            template.optimization_enabled)])

\* dict[key] = value
Put(dict, key, value) ==
    [k \in DOMAIN dict \cup {key} |-> IF k = key THEN value ELSE dict[k]]

\* create_test_strategy up to its first await: the start event is published.
BeginCreate(t) ==
    /\ creators[t].pc = "new"
    /\ Publishes("test_manager_workflow", "strategy_generated")
    /\ creators' = [creators EXCEPT ![t].pc = "started"]
    /\ UNCHANGED <<active_strategies, strategies_path>>
    /\ UNCHANGED <<execVars, fcall, analyzerVars, manageVars, workflowVars, engineVars>>

\* create_test_strategy from the template choice to its end: the strategy is
\* built, stored under its id, written to its file and returned; an
\* exception is reported by an error event and raised again.
FinishCreate(t) ==
    /\ creators[t].pc = "started"
    /\ LET built == BuildStrategy(creators[t].requirements, wall)
       IN IF built.kind = "raise"
          THEN /\ Publishes("test_manager_workflow", "error_occurred")
               /\ UNCHANGED <<active_strategies, strategies_path>>
               /\ creators' = [creators EXCEPT ![t].pc = "done",
                                               ![t].result = built]
          ELSE /\ active_strategies' = Put(active_strategies, built.value.id,
                                           built.value)
               /\ strategies_path' = Put(strategies_path, built.value.id,
                                         built.value)
               /\ Publishes("test_manager_workflow", "strategy_generated")
               /\ creators' = [creators EXCEPT ![t].pc = "done",
                                               ![t].result = built,
                                               ![t].stored = built.value.id]
    /\ UNCHANGED <<execVars, fcall, analyzerVars, manageVars, workflowVars, engineVars>>

\* A create_test_strategy call: its position, its argument, how it ended and
\* the id under which it stored its strategy (None while it stored none).
Creator(requirements) ==
    [pc |-> "new", requirements |-> requirements, result |-> None, stored |-> None]

\* A new TestManagerMCP and the create_test_strategy calls gathered on it.
StrategyInit ==
    /\ ExecIdle
    /\ AnalyzerIdle
    /\ ManageIdle
    /\ BusIdle
    /\ WorkflowIdle
    /\ EngineIdle
    /\ active_strategies = <<>>
    /\ strategies_path = <<>>
    /\ creators \in [1..MaxCreators -> {Creator(r) : r \in RequirementSet}]

StrategyNext ==
    \/ ClockTick
    \/ \E t \in DOMAIN creators : BeginCreate(t)
    \/ \E t \in DOMAIN creators : FinishCreate(t)

StrategySpec == StrategyInit /\ [][StrategyNext]_vars

\* C23 (as stated): the strategies returned by the create_test_strategy calls
\* on one manager have pairwise distinct ids; none overwrites another's entry
\* of active_strategies or file.
C23_StrategyIdsUnique ==
    \A t \in DOMAIN creators : \A u \in DOMAIN creators :
        /\ t # u
        /\ creators[t].pc = "done" /\ creators[t].result.kind = "return"
        /\ creators[u].pc = "done" /\ creators[u].result.kind = "return"
        => /\ creators[t].result.value.id # creators[u].result.value.id
           /\ creators[t].stored # creators[u].stored

\* C24 (as stated): a call whose requirements hold only unrecognised fields
\* raises an exception and adds no strategy to active_strategies.
C24_UnrecognisedFieldsRejected ==
    \A t \in DOMAIN creators :
        /\ creators[t].pc = "done"
        /\ DOMAIN creators[t].requirements # {}
        /\ DOMAIN creators[t].requirements \cap RecognisedFields = {}
        => /\ creators[t].result.kind = "raise"
           /\ creators[t].stored = None

\* -------------------------------------------------- the bus on its own

\* At most this many callbacks are subscribed at a time.
MaxSubscriptions == 2
\* At most this many publish_event calls are followed.
MaxPublishes == 2

\* The event types the components of the bus specifications use.
BusEventTypes == {"test_started", "test_completed"}

\* limit arguments of get_event_history; 100 is the default.
DEFAULT_LIMIT == 100
Limits == {0, 1, 2, DEFAULT_LIMIT}

\* The numbers of events published before a bus specification starts to
\* follow the bus: none, or one fewer than the history holds at most.
PriorPublishes == {0, MAX_HISTORY_SIZE - 1}

\* the type of the event with the given serial among the prior events
PriorType(serial) == IF serial % 2 = 1 THEN "test_started" ELSE "test_completed"

\* _event_history after the given number of prior events (no more than
\* MAX_HISTORY_SIZE)
HistoryOfPublishes(n) == [i \in 1..n |-> Event(i, PriorType(i), "test_execution_engine")]

\* the number of callbacks subscribed
Subscribed(subs) == SumOver([t \in DOMAIN subs |-> Len(subs[t])], DOMAIN subs)

\* bus.subscribe_to_event(event_type, callback)
Subscribe(event_type, callback) ==
    /\ Subscribed(subscribers) < MaxSubscriptions
    /\ subscribers' = subscribe_to_event(subscribers, event_type, callback)
    /\ bcall' = BusCall("subscribe_to_event",
                        [type |-> event_type, callback |-> callback],
                        subscribers, <<>>, TRUE)
    /\ UNCHANGED <<message_handlers, event_history, published>>
    /\ UNCHANGED <<execVars, fcall, analyzerVars, manageVars, strategyVars,
                   workflowVars, engineVars>>

\* bus.unsubscribe_from_event(event_type, callback)
Unsubscribe(event_type, callback) ==
    /\ LET left == unsubscribe_from_event(subscribers, event_type, callback)
       IN /\ subscribers' = left.subscribers
          /\ bcall' = BusCall("unsubscribe_from_event",
                              [type |-> event_type, callback |-> callback],
                              subscribers, <<>>, left.result)
    /\ UNCHANGED <<message_handlers, event_history, published>>
    /\ UNCHANGED <<execVars, fcall, analyzerVars, manageVars, strategyVars,
                   workflowVars, engineVars>>

\* await bus.publish_event(Event(type=event_type, ...))
PublishEvent(event_type) ==
    /\ \E prior \in PriorPublishes :
          prior <= published /\ published < prior + MaxPublishes
    /\ Publishes("test_execution_engine", event_type)
    /\ UNCHANGED <<execVars, fcall, analyzerVars, manageVars, strategyVars,
                   workflowVars, engineVars>>

\* filtered_events[-limit:], as Python slices: the whole list for limit 0
LastEvents(events, limit) ==
    IF limit = 0 \/ limit >= Len(events) THEN events
    ELSE SubSeq(events, Len(events) - limit + 1, Len(events))

\* event_type=None of get_event_history
NO_TYPE == "None"

\* MessageBus.get_event_history(event_type, limit); event_type may be None.
get_event_history(history, event_type, limit) ==
    IF event_type # NO_TYPE
    THEN LastEvents(SelectSeq(history, LAMBDA e : e.type = event_type), limit)
    ELSE LastEvents(history, limit)

\* bus.get_event_history(event_type, limit)
GetEventHistory(event_type, limit) ==
    /\ bcall' = BusCall("get_event_history", [type |-> event_type, limit |-> limit],
                        subscribers, <<>>,
                        get_event_history(event_history, event_type, limit))
    /\ UNCHANGED <<subscribers, message_handlers, event_history, published>>
    /\ UNCHANGED <<execVars, fcall, analyzerVars, manageVars, strategyVars,
                   workflowVars, engineVars>>

\* A new bus.
BusInit ==
    /\ ExecIdle
    /\ AnalyzerIdle
    /\ ServicesIdle

BusNext ==
    \/ \E event_type \in BusEventTypes : \E callback \in Callbacks :
          Subscribe(event_type, callback)
    \/ \E event_type \in BusEventTypes : \E callback \in Callbacks :
          Unsubscribe(event_type, callback)
    \/ \E event_type \in BusEventTypes : PublishEvent(event_type)

BusSpec == BusInit /\ [][BusNext]_vars

\* A bus without subscribers on which the prior events have been published.
BusHistoryInit ==
    /\ ExecIdle
    /\ AnalyzerIdle
    /\ ManageIdle
    /\ StrategyIdle
    /\ WorkflowIdle
    /\ EngineIdle
    /\ subscribers = <<>>
    /\ message_handlers = <<>>
    /\ published \in PriorPublishes
    /\ event_history = HistoryOfPublishes(published)
    /\ bcall = NoBusCall

BusHistoryNext ==
    \/ \E event_type \in BusEventTypes : PublishEvent(event_type)
    \/ \E event_type \in BusEventTypes \cup {NO_TYPE} : \E limit \in Limits :
          GetEventHistory(event_type, limit)

BusHistorySpec == BusHistoryInit /\ [][BusHistoryNext]_vars

\* the callbacks of a list, each once, in the order of their first
\* subscription
FirstOccurrences(list) ==
    LET firsts == SelectSeq([i \in DOMAIN list |-> i],
                            LAMBDA i : \A j \in 1..(i - 1) : list[j] # list[i])
    IN [k \in DOMAIN firsts |-> list[firsts[k]]]

PublishCalled == bcall.op = "publish_event"

\* C25 (as stated): an event of type T is delivered exactly once to each
\* callback subscribed to T when it is published, in subscription order, and
\* to no other callback, whether or not a callback raises; publish_event
\* returns True.
C25_DeliveredOnceInOrder ==
    PublishCalled =>
        /\ bcall.called = FirstOccurrences(Get(bcall.before, bcall.args.type, <<>>))
        /\ bcall.result = TRUE

GetHistoryCalled == bcall.op = "get_event_history"

\* C30 (as stated): the history holds at most 1000 events and is exactly the
\* most recently published ones in publish order; get_event_history returns
\* at most limit events, all of the requested type, in publish order.
C30_HistoryCappedAndLimited ==
    /\ Len(event_history) <= MAX_HISTORY_SIZE
    /\ Len(event_history) = IF published < MAX_HISTORY_SIZE THEN published
                            ELSE MAX_HISTORY_SIZE
    /\ \A i \in DOMAIN event_history :
          event_history[i].id = published - Len(event_history) + i
    /\ GetHistoryCalled =>
          /\ Len(bcall.result) <= bcall.args.limit
          /\ \A i \in DOMAIN bcall.result :
                /\ bcall.args.type # NO_TYPE => bcall.result[i].type = bcall.args.type
                /\ \A j \in DOMAIN bcall.result :
                      i < j => bcall.result[i].id < bcall.result[j].id

\* ======================================================================
\* Part 6: TestExecutionEngine.execute_tests and stop_execution
\* (adapter/test_execution_engine/test_execution_engine.py)
\* ======================================================================

\* A plan has at most this many test cases.
MaxCases == 3

\* plan.id of the plan executed, and an id no execution has.
PLAN_ID == "plan_a"
ExecutionIds == {PLAN_ID, "plan_x"}
Plans == {[id |-> PLAN_ID, test_cases |-> n] : n \in 0..MaxCases}

\* What execute_single_test returns after its sleep: random.random() against
\* the 0.85 success rate.
SingleTestStatuses == {"passed", "failed"}

\* passed_count, failed_count, error_count of the loop
StatusCount(test_results, status) ==
    Cardinality({i \in DOMAIN test_results : test_results[i] = status})

\* ExecutionResult(...) built after the loop
ExecutionResult(plan, test_results) ==
    [plan_id      |-> plan.id,
     status       |-> IF StatusCount(test_results, "failed") = 0
                         /\ StatusCount(test_results, "error") = 0
                      THEN "passed" ELSE "failed",
     total_tests  |-> plan.test_cases,
     passed_tests |-> StatusCount(test_results, "passed"),
     failed_tests |-> StatusCount(test_results, "failed"),
     error_tests  |-> StatusCount(test_results, "error")]

\* execute_tests from the top of the loop on, with the executions recorded
\* and the results so far, after the events already published without a
\* suspension: the next test case begins and the coroutine sleeps in
\* execute_single_test, or the loop is over, the execution is recorded as
\* completed, the completion event is published and the result returned.
Proceed(plan, executions, test_results, events) ==
    IF Len(test_results) < plan.test_cases
    THEN /\ engine_task' = [engine_task EXCEPT !.pc = "sleeping",
                                               !.plan = plan,
                                               !.started = Len(test_results) + 1,
                                               !.results = test_results]
         /\ active_executions' = executions
         /\ IF events = <<>> THEN UNCHANGED busVars
            ELSE PublishesAll("test_execution_engine", events)
    ELSE /\ active_executions' =
               [executions EXCEPT ![plan.id] =
                   [@ EXCEPT !.status = "completed",
                             !.result = ExecutionResult(plan, test_results)]]
         /\ PublishesAll("test_execution_engine", Append(events, "test_completed"))
         /\ engine_task' = [engine_task EXCEPT !.pc = "returned",
                                               !.plan = plan,
                                               !.results = test_results]

\* await engine.execute_tests(plan), to its first suspension: the sleep of
\* the first test case, or the return for a plan without test cases
ExecuteTests(plan) ==
    /\ engine_task.pc = "none"
    /\ Proceed(plan,
               Put(active_executions, plan.id,
                   [plan |-> plan, status |-> "running", result |-> None]),
               <<>>, <<"test_started">>)
    /\ UNCHANGED <<execVars, fcall, analyzerVars, manageVars, strategyVars,
                   workflowVars>>

\* The sleep of execute_single_test is over: its result is appended and the
\* loop goes on to the next suspension or to the return.
EndTestCase(status) ==
    /\ engine_task.pc = "sleeping"
    /\ Proceed(engine_task.plan, active_executions,
               Append(engine_task.results, status), <<>>)
    /\ UNCHANGED <<execVars, fcall, analyzerVars, manageVars, strategyVars,
                   workflowVars>>

\* await engine.stop_execution(execution_id)
StopExecution(execution_id) ==
    LET present == execution_id \in DOMAIN active_executions
        before  == IF present THEN active_executions[execution_id].status ELSE ""
        first   == present /\ before = "running" /\ engine_task.stopped_at = -1
    IN /\ active_executions' =
             IF present
             THEN [active_executions EXCEPT ![execution_id].status = "stopped"]
             ELSE active_executions
       /\ engine_task' =
             [engine_task EXCEPT
                 !.stop = [id |-> execution_id, status |-> before,
                           result |-> present],
                 !.stopped_at = IF first THEN engine_task.started ELSE @]
       /\ UNCHANGED busVars
       /\ UNCHANGED <<execVars, fcall, analyzerVars, manageVars, strategyVars,
                      workflowVars>>

\* A new engine.
EngineInit ==
    /\ ExecIdle
    /\ AnalyzerIdle
    /\ ServicesIdle

EngineNext ==
    \/ \E plan \in Plans : ExecuteTests(plan)
    \/ \E status \in SingleTestStatuses : EndTestCase(status)
    \/ \E execution_id \in ExecutionIds : StopExecution(execution_id)

EngineSpec == EngineInit /\ [][EngineNext]_vars

StoppedWhileRunning == engine_task.stopped_at >= 0

\* C26 (as stated): once stop_execution(id) has returned True for a running
\* execution, execute_tests begins no further test case of the plan and the
\* recorded status of the execution stays "stopped".
C26_StopStopsExecution ==
    StoppedWhileRunning =>
        /\ engine_task.started = engine_task.stopped_at
        /\ active_executions[engine_task.plan.id].status = "stopped"

\* ======================================================================
\* Part 7: TestManagerMCP.execute_test_workflow and the two communication
\* adapters on one message bus
\* (workflow/test_manager_mcp/test_manager_mcp.py, communication.py)
\* ======================================================================

\* A strategy names at most this many target modules.
MaxModules == 2

\* component names of the two adapters
WORKFLOW_COMPONENT == "test_manager_workflow"
ENGINE_COMPONENT == "test_execution_engine"

\* Message(type=..., source=..., target=..., payload=...)
Message(type, source, target, payload) ==
    [type |-> type, source |-> source, target |-> target, payload |-> payload]

\* MessageBus._create_error_response
create_error_response(original_message, error_msg) ==
    Message("error", "message_bus", original_message.source, [error |-> error_msg])

\* message.payload.get("action") = action
HasAction(message, action) ==
    "action" \in DOMAIN message.payload /\ message.payload.action = action

\* CommunicationProtocol._handle_message: the default answer
protocol_handle_message(component_name, message) ==
    IF message.type = "request"
    THEN Message("response", component_name, message.source,
                 [status |-> "received", message |-> "Default handler"])
    ELSE None

\* WorkflowCommunicationAdapter._handle_message
workflow_handle_message(message) ==
    IF message.type = "request" /\ HasAction(message, "create_strategy")
    THEN Message("response", WORKFLOW_COMPONENT, message.source,
                 [status |-> "strategy_created"])
    ELSE IF message.type = "request" /\ HasAction(message, "get_status")
    THEN Message("response", WORKFLOW_COMPONENT, message.source,
                 [status |-> "active", workflows |-> <<>>])
    ELSE protocol_handle_message(WORKFLOW_COMPONENT, message)

\* AdapterCommunicationAdapter._handle_message with _handle_test_execution,
\* _handle_framework_generation and _handle_issue_fixing
adapter_handle_message(message) ==
    IF message.type = "request" /\ HasAction(message, "execute_tests")
    THEN Message("response", ENGINE_COMPONENT, message.source,
                 [status |-> "execution_started", estimated_duration |-> 300])
    ELSE IF message.type = "request" /\ HasAction(message, "generate_frameworks")
    THEN Message("response", ENGINE_COMPONENT, message.source,
                 [status |-> "generation_completed",
                  generated_files |-> Len(Get(message.payload, "modules", <<>>)) * 2,
                  modules |-> Get(message.payload, "modules", <<>>)])
    ELSE IF message.type = "request" /\ HasAction(message, "fix_issues")
    THEN Message("response", ENGINE_COMPONENT, message.source,
                 [status |-> "fixing_completed",
                  fixed_issues |-> Len(Get(message.payload, "issues", <<>>)),
                  remaining_issues |-> 0])
    ELSE protocol_handle_message(ENGINE_COMPONENT, message)

\* await handler(message); a handler is named by the class of the adapter
\* that registered it
CallHandler(handler, message) ==
    IF handler = "AdapterCommunicationAdapter" THEN adapter_handle_message(message)
    ELSE workflow_handle_message(message)

\* MessageBus.register_handler
register_handler(handlers, component_name, handler) ==
    Put(handlers, component_name, handler)

\* MessageBus.send_message: the response
send_message(handlers, message) ==
    IF message.target \in DOMAIN handlers
    THEN CallHandler(handlers[message.target], message)
    ELSE create_error_response(message, "Target handler not found")

\* CommunicationProtocol.send_request; no handler suspends, so the timeout of
\* wait_for never strikes
send_request(handlers, source, target, payload) ==
    send_message(handlers, Message("request", source, target, payload))

\* "if response and response.type != MessageType.ERROR: return
\* response.payload", else None
PayloadOf(response) ==
    IF response # None /\ response.type # "error" THEN response.payload ELSE None

\* WorkflowCommunicationAdapter.request_framework_generation
request_framework_generation(handlers, modules) ==
    PayloadOf(send_request(handlers, WORKFLOW_COMPONENT, ENGINE_COMPONENT,
                           [action |-> "generate_frameworks", modules |-> modules]))

\* WorkflowCommunicationAdapter.request_test_execution
request_test_execution(handlers, execution_plan) ==
    PayloadOf(send_request(handlers, WORKFLOW_COMPONENT, ENGINE_COMPONENT,
                           [action |-> "execute_tests", plan |-> execution_plan]))

\* datetime.now().strftime('%H%M%S'), as code points
strftime_time(dt) ==
    Digits(dt.hour, 2) \o Digits(dt.minute, 2) \o Digits(dt.second, 2)

\* f"workflow_{strategy.id}_{datetime.now().strftime('%H%M%S')}"
WorkflowId(strategy, clock) ==
    [prefix |-> "workflow_", of |-> strategy.id, time |-> strftime_time(DateTime(clock))]

\* f"plan_{strategy.id}_{datetime.now().strftime('%H%M%S')}"
PlanId(strategy, clock) ==
    [prefix |-> "plan_", of |-> strategy.id, time |-> strftime_time(DateTime(clock))]

\* TestManagerMCP._create_test_plan: one test case per module and test
\* type, or one per test type when no module is named
create_test_plan(strategy, clock) ==
    [id          |-> PlanId(strategy, clock),
     strategy_id |-> strategy.id,
     test_cases  |-> IF strategy.target_modules # <<>>
                     THEN Len(strategy.target_modules) * Len(strategy.test_types)
                     ELSE Len(strategy.test_types)]

\* the requirements the strategies of the workflows are created from
WorkflowRequirements ==
    {[template |-> template,
      target_modules |-> [i \in 1..n |-> "workflow_test_module"]] :
        template \in DOMAIN strategy_templates, n \in 0..MaxModules}

\* the strategies execute_test_workflow is called with
WorkflowStrategies ==
    {BuildStrategy(requirements, 0).value : requirements \in WorkflowRequirements}

\* The steps in the order of the code.
WORKFLOW_STEPS ==
    <<"initialization", "framework_generation", "plan_creation",
      "test_execution", "result_processing", "completed">>

\* self.active_workflows[workflow_id]["current_step"] = step
SetStep(workflows, id, step) == [workflows EXCEPT ![id].current_step = step]

\* the except branch: status and error of the workflow record
MarkFailed(workflows, id, error) ==
    IF id \in DOMAIN workflows
    THEN [workflows EXCEPT ![id].status = "failed", ![id].error = error]
    ELSE workflows

\* the bus variables after the events, none of which may be published
PublishesAny(source, events) ==
    IF events = <<>> THEN UNCHANGED busVars ELSE PublishesAll(source, events)

\* execute_test_workflow raises: the except branch marks the workflow as
\* failed, publishes the error event and raises again.
RaiseFromWorkflow(coro, workflows, events, error) ==
    /\ active_workflows' = MarkFailed(workflows, coro.id, error)
    /\ PublishesAll(WORKFLOW_COMPONENT, Append(events, "error_occurred"))
    /\ workflow' = [coro EXCEPT !.pc = "raised", !.result = RaisesError("Exception")]
    /\ UNCHANGED workflows_path

\* Steps 2 and 3 up to the await of the execution request: the plan is
\* created and the request for its execution is sent.
ToTestExecution(coro, workflows, events) ==
    /\ active_workflows' =
          SetStep(SetStep(workflows, coro.id, "plan_creation"), coro.id,
                  "test_execution")
    /\ PublishesAny(WORKFLOW_COMPONENT, events)
    /\ workflow' = [coro EXCEPT !.pc = "test_execution",
                                !.steps = @ \o <<"plan_creation", "test_execution">>,
                                !.plan = create_test_plan(coro.strategy, wall)]
    /\ UNCHANGED workflows_path

\* TestExecutionEngine(...) is constructed: create_adapter_communication()
\* registers the AdapterCommunicationAdapter on the global bus.
CreateEngine ==
    /\ ENGINE_COMPONENT \notin DOMAIN message_handlers
    /\ message_handlers' = register_handler(message_handlers, ENGINE_COMPONENT,
                                            "AdapterCommunicationAdapter")
    /\ UNCHANGED <<subscribers, event_history, published, bcall>>
    /\ UNCHANGED <<execVars, fcall, analyzerVars, manageVars, strategyVars,
                   workflowVars, engineVars>>

\* await manager.execute_test_workflow(strategy), to the await of its first
\* request
StartWorkflow(strategy) ==
    /\ workflow.pc = "none"
    /\ LET id       == WorkflowId(strategy, wall)
           recorded == Put(active_workflows, id,
                           [strategy |-> strategy.id, status |-> "running",
                            current_step |-> "initialization",
                            result |-> None, error |-> None])
           coro     == Workflow("started", strategy, id, <<"initialization">>,
                                None, <<>>, None)
       IN IF strategy.target_modules # <<>>
          THEN /\ active_workflows' = SetStep(recorded, id, "framework_generation")
               /\ PublishesAll(WORKFLOW_COMPONENT, <<"workflow_started">>)
               /\ workflow' = [coro EXCEPT !.pc = "framework_generation",
                                           !.steps = Append(@, "framework_generation")]
               /\ UNCHANGED workflows_path
          ELSE ToTestExecution(coro, recorded, <<"workflow_started">>)
    /\ UNCHANGED <<execVars, fcall, analyzerVars, manageVars, strategyVars,
                   engineVars>>

\* The request for framework generation is answered: a result other than
\* status "success" raises, otherwise the workflow goes on to the test plan.
FrameworkGenerated ==
    /\ workflow.pc = "framework_generation"
    /\ LET framework_result ==
               request_framework_generation(message_handlers,
                                            workflow.strategy.target_modules)
           succeeded == /\ framework_result # None
                        /\ "status" \in DOMAIN framework_result
                        /\ framework_result.status = "success"
           coro == [workflow EXCEPT !.requests =
                       Append(@, [action |-> "generate_frameworks",
                                  result |-> framework_result,
                                  failed |-> ~succeeded])]
       IN IF ~succeeded
          THEN RaiseFromWorkflow(coro, active_workflows, <<>>, "framework generation failed")
          ELSE ToTestExecution(coro, active_workflows, <<>>)
    /\ UNCHANGED <<execVars, fcall, analyzerVars, manageVars, strategyVars,
                   engineVars>>

\* what open(workflow_path, 'w') and json.dump do
WriteOutcomes == {"written", "oserror"}

\* ExecutionResult(...) of the workflow
FinalResult(plan, strategy, execution_result) ==
    [plan_id      |-> plan.id,
     strategy_id  |-> strategy.id,
     status       |-> Get(execution_result, "status", "unknown"),
     total_tests  |-> plan.test_cases,
     passed_tests |-> Get(execution_result, "passed_tests", 0),
     failed_tests |-> Get(execution_result, "failed_tests", 0),
     error_tests  |-> Get(execution_result, "error_tests", 0)]

\* The request for test execution is answered: without a result the
\* workflow raises; with one it processes the result, records the workflow
\* as completed, writes the workflow file and publishes the completion.
TestsExecuted(write) ==
    /\ workflow.pc = "test_execution"
    /\ LET execution_result == request_test_execution(message_handlers, workflow.plan)
           coro == [workflow EXCEPT !.requests =
                       Append(@, [action |-> "execute_tests",
                                  result |-> execution_result,
                                  failed |-> execution_result = None])]
           final_result == FinalResult(workflow.plan, workflow.strategy,
                                       execution_result)
           completed ==
               [active_workflows EXCEPT ![coro.id] =
                   [@ EXCEPT !.status = "completed", !.result = final_result,
                             !.current_step = "completed"]]
           ended == [coro EXCEPT !.steps = @ \o <<"result_processing", "completed">>]
       IN IF execution_result = None
          THEN RaiseFromWorkflow(coro, active_workflows, <<>>, "test execution request failed")
          ELSE IF write = "oserror"
          THEN RaiseFromWorkflow(ended, completed, <<>>, "OSError")
          ELSE /\ active_workflows' = completed
               /\ workflows_path' =
                     Put(workflows_path, coro.id,
                         [workflow_id |-> coro.id, strategy_id |-> coro.strategy.id,
                          status |-> "completed",
                          total_tests |-> final_result.total_tests])
               /\ PublishesAll(WORKFLOW_COMPONENT, <<"workflow_completed">>)
               /\ workflow' = [ended EXCEPT !.pc = "returned",
                                            !.result = Returns(final_result)]
    /\ UNCHANGED <<execVars, fcall, analyzerVars, manageVars, strategyVars,
                   engineVars>>

\* A new TestManagerMCP: its WorkflowCommunicationAdapter is registered on
\* the global bus.
WorkflowInit ==
    /\ ExecIdle
    /\ AnalyzerIdle
    /\ ManageIdle
    /\ StrategyIdle
    /\ WorkflowIdle
    /\ EngineIdle
    /\ subscribers = <<>>
    /\ message_handlers = register_handler(<<>>, WORKFLOW_COMPONENT,
                                           "WorkflowCommunicationAdapter")
    /\ event_history = <<>>
    /\ published = 0
    /\ bcall = NoBusCall

\* the steps of the coroutine after a suspension
WorkflowResumes ==
    \/ FrameworkGenerated
    \/ \E write \in WriteOutcomes : TestsExecuted(write)

WorkflowNext ==
    \/ ClockTick
    \/ CreateEngine
    \/ \E strategy \in WorkflowStrategies : StartWorkflow(strategy)
    \/ WorkflowResumes

WorkflowSpec == WorkflowInit /\ [][WorkflowNext]_vars

\* The event loop resumes a coroutine whose request has been answered.
WorkflowFairSpec == WorkflowSpec /\ WF_vars(WorkflowResumes)

BothAdaptersRegistered ==
    {WORKFLOW_COMPONENT, ENGINE_COMPONENT} \subseteq DOMAIN message_handlers

\* execute_test_workflow is under way for a strategy with target modules
\* while both adapters are registered
WorkflowUnderWay ==
    /\ workflow.pc = "framework_generation"
    /\ workflow.strategy.target_modules # <<>>
    /\ BothAdaptersRegistered

WorkflowCompleted ==
    /\ workflow.pc # "none"
    /\ active_workflows[workflow.id].status = "completed"
    /\ active_workflows[workflow.id].current_step = "completed"

\* the steps so far are the first steps of the code's order
StepsInOrder ==
    /\ Len(workflow.steps) <= Len(WORKFLOW_STEPS)
    /\ \A i \in DOMAIN workflow.steps : workflow.steps[i] = WORKFLOW_STEPS[i]

NoCompletionAfterFailedRequest ==
    (workflow.pc # "none" /\ active_workflows[workflow.id].status = "completed")
        => \A i \in DOMAIN workflow.requests : ~workflow.requests[i].failed

\* C28 (as stated): with both adapters registered on the bus, a workflow for
\* a strategy with target modules takes the steps framework_generation,
\* plan_creation, test_execution, result_processing in this order and
\* eventually has status "completed" and current_step "completed"; a
\* workflow with a failed request is never recorded as completed.
C28_WorkflowCompletes ==
    /\ [](WorkflowUnderWay => StepsInOrder)
    /\ []NoCompletionAfterFailedRequest
    /\ (WorkflowUnderWay ~> WorkflowCompleted)

====
